---- MODULE Spec2Model ----
(***************************************************************************)
(* Model of the retrieval core of ChatSpecies_Zinos_Petrel.                *)
(*                                                                         *)
(*   Spec          rag_utils.get_rag_instance and OptimizedRAG.vectordb    *)
(*                 called from several threads (the module-level cache     *)
(*                 and the lazily built store connection).                 *)
(*   SpecParams    the parameter selection of OptimizedRAG.retrieve        *)
(*                 (_estimate_k, fetch_k = 3k) over every query.           *)
(*   SpecRetrieve  one OptimizedRAG.retrieve call against a store: MMR     *)
(*                 search, relevance filter, result.                       *)
(***************************************************************************)
EXTENDS Integers, Sequences, FiniteSets, TLC

(***************************************************************************)
(* Bounds.                                                                 *)
(***************************************************************************)
NumThreads == 2
NumLocations == 2
MaxOps == 3
MaxWords == 51
MaxGap == 2
MaxK == 2
MaxFetchK == 3
MaxDocs == 3
Scale == 2
MaxScore == 3
MaxRetrieved == 3
MaxResults == 3
MaxSummarized == 4

Threads == 1..NumThreads
Locations == 1..NumLocations
\* Each caller passes its own credentials: thread t passes key t.
Keys == Threads

\* Python's None, for every optional value of the model.
None == 0 - 1

(***************************************************************************)
(* State.                                                                  *)
(***************************************************************************)
VARIABLES
    \* ---- rag_utils module state and the objects it builds ----
    rag_instances,   \* _rag_instances: location -> id of the cached OptimizedRAG, None when absent
    instances,       \* every OptimizedRAG ever constructed, by id (its three fields)
    conns,           \* every Chroma connection ever constructed, by id
    reachable,       \* whether the backing service answers a connection attempt
    \* ---- per thread ----
    pc,              \* position of the thread in get_rag_instance / vectordb
    arg,             \* arguments of the running get_rag_instance call
    newobj,          \* instance constructed by the running call and its id (None: none)
    rag,             \* instance returned to the caller by get_rag_instance
    newconn,         \* connection built by the running vectordb access
    db,              \* connection returned to the caller by vectordb
    \* ---- history (observers, never read by the operations) ----
    returned,        \* location -> instances get_rag_instance has returned for it
    seen,            \* thread -> returned[location] when its running call began
    known,           \* thread -> the instances constructed for its location when its running call began
    failedOn,        \* instances on which a connection attempt has raised
    ops,             \* number of calls and property reads started so far, by all threads
    \* ---- one retrieve call ----
    rpc,             \* position inside retrieve
    query,           \* the query, as its shape [words, gap, pad]
    kArg,            \* k as supplied by the caller (None: omitted)
    fetchArg,        \* fetch_k as supplied by the caller (None: omitted)
    thresholdArg,    \* relevance_threshold as supplied (None: omitted), in 1/Scale
    k,               \* k handed to the store
    fetch_k,         \* fetch_k handed to the store
    scores,          \* the store: distance of each document to the query, nearest first, in 1/Scale
    docs,            \* result of the MMR search
    docs_with_scores,\* result of the similarity-score re-query
    result,          \* what retrieve returns
    mmrCalls,        \* number of MMR searches made by the call
    simCalls,        \* number of similarity-score queries made by the call
    \* ---- fact_check_utils: one call of a function under study ----
    fpc,             \* position inside the call
    question,        \* the user's question
    retrieved_docs,  \* the retrieved documents, as ids into Contents (None: not passed)
    other_docs,      \* a second document sequence, for a second run of the same function
    optimized_query, \* result of optimize_search_query(question, retrieved_docs)
    other_query,     \* result of optimize_search_query(question, other_docs)
    raw_results,     \* what the first search provider returned, as ids into RawResults
    results,         \* the local `results` of web_search_supplement, or the filter's output
    use_web_search,  \* USE_WEB_SEARCH is "true" in any letter case
    provider,        \* WEB_SEARCH_PROVIDER, lower-cased
    tavily_key,      \* TAVILY_API_KEY, or None
    language,        \* the language argument
    ddg_call,        \* what became of the DuckDuckGo search in this call
    tavily_call,     \* what became of the Tavily search in this call
    response,        \* what the Tavily client returned
    web_result,      \* what web_search_supplement returned
    ai_answer,       \* the ai_answer argument
    prompt,          \* the prompt built by summarize_fact_check
    llmCalls,        \* number of llm.invoke calls made
    llm_result,      \* what the completion service did
    kb_summary,      \* what summarize_fact_check returned, or the exception it raised
    content,         \* what generate_fact_check_content returned
    request_docs,    \* the retrieved_docs argument of generate_fact_check_content
    received,        \* the sub-calls made so far, each with the documents it was passed
    \* ---- optimize_search_query asked again with another question ----
    other_question,  \* the question of the second call
    reasked_query,   \* result of optimize_search_query(other_question, retrieved_docs)
    \* ---- one call of get_friendly_filename ----
    given_source_file, \* the argument, as an index into SourceFiles
    friendly_name_result, \* what the call returned
    \* ---- tts_utils: one call of speak ----
    spc,             \* position inside speak
    tts_language,    \* the language argument
    portuguese_variant, \* the portuguese_variant argument
    tts_voice,       \* the voice argument
    invoked,         \* the providers called so far, each with what it answered
    speak_result,    \* what speak returned
    \* ---- vectorize_knowledge_base: one call of create_vector_store ----
    vpc,             \* position inside create_vector_store
    chunks,          \* the chunks argument
    on_disk,         \* what the collection under persist_directory holds
    loop_i,          \* the loop variable i
    store_handle,    \* the local vectordb: None or the number of the store created
    stores_created,  \* number of Chroma.from_documents calls made
    batches,         \* the batches handed to the store so far
    \* ---- two requests handled side by side ----
    req_pc,          \* request -> its stage
    req_input,       \* request -> what the request came with
    req_locals,      \* frame -> the local variables of the pipeline functions
    req_output       \* request -> what the stages returned to it

regVars == <<rag_instances, instances, conns, reachable, pc, arg, newobj, rag,
             newconn, db, returned, seen, known, failedOn, ops>>
retVars == <<rpc, query, kArg, fetchArg, thresholdArg, k, fetch_k, scores, docs,
             docs_with_scores, result, mmrCalls, simCalls>>
webVars == <<use_web_search, provider, tavily_key, language, ddg_call, tavily_call,
             response, web_result>>
sumVars == <<ai_answer, prompt, llmCalls, llm_result, kb_summary, content,
             request_docs, received>>
fcVars == <<fpc, question, retrieved_docs, other_docs, optimized_query, other_query,
            raw_results, results, webVars, sumVars>>
reaskVars == <<other_question, reasked_query>>
nameVars == <<given_source_file, friendly_name_result>>
ttsVars == <<spc, tts_language, portuguese_variant, tts_voice, invoked, speak_result>>
vsVars == <<vpc, chunks, on_disk, loop_i, store_handle, stores_created, batches>>
reqVars == <<req_pc, req_input, req_locals, req_output>>
restVars == <<ttsVars, vsVars, reqVars>>
moreVars == <<reaskVars, nameVars, restVars>>
vars == <<regVars, retVars, fcVars, moreVars>>

\* The retrieve variables while no retrieve call is modelled.
RetrieveIdle ==
    /\ rpc = "none"
    /\ query = [words |-> 0, gap |-> 1, pad |-> 0]
    /\ kArg = None
    /\ fetchArg = None
    /\ thresholdArg = None
    /\ k = None
    /\ fetch_k = None
    /\ scores = <<>>
    /\ docs = <<>>
    /\ docs_with_scores = <<>>
    /\ result = <<>>
    /\ mmrCalls = 0
    /\ simCalls = 0

\* The variables of summarize_fact_check and generate_fact_check_content while
\* they are not called.
SummarizeIdle ==
    /\ ai_answer = ""
    /\ prompt = [kind |-> "none"]
    /\ llmCalls = 0
    /\ llm_result = [kind |-> "none"]
    /\ kb_summary = [kind |-> "none"]
    /\ content = [kind |-> "none"]
    /\ request_docs = <<>>
    /\ received = <<>>

\* The variables of web_search_supplement while it is not called.
WebIdle ==
    /\ use_web_search = FALSE
    /\ provider = ""
    /\ tavily_key = ""
    /\ language = ""
    /\ ddg_call = "none"
    /\ tavily_call = "none"
    /\ response = [kind |-> "none"]
    /\ web_result = [kind |-> "none"]

\* The second question while optimize_search_query is not asked again.
ReaskIdle ==
    /\ other_question = ""
    /\ reasked_query = ""

\* The variables of get_friendly_filename while it is not called.
NameIdle ==
    /\ given_source_file = 0
    /\ friendly_name_result = [kind |-> "none"]

\* The variables of speak while it is not called.
TtsIdle ==
    /\ spc = "none"
    /\ tts_language = ""
    /\ portuguese_variant = ""
    /\ tts_voice = ""
    /\ invoked = <<>>
    /\ speak_result = [kind |-> "none"]

\* The variables of create_vector_store while it is not called.
VsIdle ==
    /\ vpc = "none"
    /\ chunks = <<>>
    /\ on_disk = <<>>
    /\ loop_i = 0
    /\ store_handle = None
    /\ stores_created = 0
    /\ batches = <<>>

\* The variables of the two requests while none is handled.
ReqIdle ==
    /\ req_pc = <<>>
    /\ req_input = <<>>
    /\ req_locals = <<>>
    /\ req_output = <<>>

\* The fact_check_utils variables while none of its functions is modelled.
FactCheckIdle ==
    /\ fpc = "none"
    /\ question = ""
    /\ retrieved_docs = <<>>
    /\ other_docs = <<>>
    /\ optimized_query = ""
    /\ other_query = ""
    /\ raw_results = <<>>
    /\ results = <<>>
    /\ WebIdle
    /\ SummarizeIdle

(***************************************************************************)
(* rag_utils.py: the instance cache and the lazily built connection.       *)
(***************************************************************************)

\* OptimizedRAG.__init__ (lines 14-17): the three fields of a new instance.
OptimizedRAG(persist_directory, dashscope_api_key) ==
    [persist_directory |-> persist_directory,
     dashscope_api_key |-> dashscope_api_key,
     vectordb |-> None]

\* Chroma(...) at lines 28-32: a connection bound to the instance's directory.
Chroma(i) ==
    [persist_directory |-> instances[i].persist_directory, owner |-> i]

InitRegistry ==
    /\ rag_instances = [l \in Locations |-> None]
    /\ instances = <<>>
    /\ conns = <<>>
    /\ reachable \in BOOLEAN
    /\ pc = [t \in Threads |-> "idle"]
    /\ arg = [t \in Threads |-> [persist_directory |-> 1, dashscope_api_key |-> t]]
    /\ newobj = [t \in Threads |-> None]
    /\ rag = [t \in Threads |-> None]
    /\ newconn = [t \in Threads |-> None]
    /\ db = [t \in Threads |-> None]
    /\ returned = [l \in Locations |-> {}]
    /\ seen = [t \in Threads |-> {}]
    /\ known = [t \in Threads |-> {}]
    /\ failedOn = {}
    /\ ops = 0

\* A caller enters get_rag_instance(persist_directory, dashscope_api_key).
get_rag_instance_call(t) ==
    /\ pc[t] \in {"idle", "have", "got", "raised"}
    /\ ops < MaxOps
    /\ ops' = ops + 1
    /\ \E l \in Locations :
         /\ arg' = [arg EXCEPT ![t] = [persist_directory |-> l, dashscope_api_key |-> t]]
         /\ seen' = [seen EXCEPT ![t] = returned[l]]
         /\ known' = [known EXCEPT ![t] =
                        {i \in 1..Len(instances) : instances[i].persist_directory = l}]
    /\ pc' = [pc EXCEPT ![t] = "check"]
    /\ newobj' = [newobj EXCEPT ![t] = None]
    /\ rag' = [rag EXCEPT ![t] = None]
    /\ newconn' = [newconn EXCEPT ![t] = None]
    /\ db' = [db EXCEPT ![t] = None]
    /\ UNCHANGED <<rag_instances, instances, conns, reachable, returned, failedOn>>

\* Variant of the membership test that waits on one process-wide construction
\* lock: it cannot run while any other thread is constructing.
get_rag_instance_check_global_lock(t) ==
    /\ pc[t] = "check"
    /\ \A u \in Threads \ {t} : pc[u] \notin {"construct", "store"}
    /\ pc' = [pc EXCEPT ![t] =
                IF rag_instances[arg[t].persist_directory] = None
                THEN "construct" ELSE "return"]
    /\ UNCHANGED <<rag_instances, instances, conns, reachable, arg, newobj, rag,
                   newconn, db, returned, seen, known, failedOn, ops>>

\* Line 149: if persist_directory not in _rag_instances.
get_rag_instance_check(t) ==
    /\ pc[t] = "check"
    /\ pc' = [pc EXCEPT ![t] =
                IF rag_instances[arg[t].persist_directory] = None
                THEN "construct" ELSE "return"]
    /\ UNCHANGED <<rag_instances, instances, conns, reachable, arg, newobj, rag,
                   newconn, db, returned, seen, known, failedOn, ops>>

\* Lines 150-153, right-hand side: OptimizedRAG(persist_directory, dashscope_api_key).
get_rag_instance_construct(t) ==
    /\ pc[t] = "construct"
    /\ instances' = Append(instances,
                           OptimizedRAG(arg[t].persist_directory, arg[t].dashscope_api_key))
    /\ newobj' = [newobj EXCEPT ![t] = Len(instances) + 1]
    /\ pc' = [pc EXCEPT ![t] = "store"]
    /\ UNCHANGED <<rag_instances, conns, reachable, arg, rag, newconn, db,
                   returned, seen, known, failedOn, ops>>

\* Line 150, the assignment: _rag_instances[persist_directory] = <the new instance>.
get_rag_instance_store(t) ==
    /\ pc[t] = "store"
    /\ rag_instances' = [rag_instances EXCEPT ![arg[t].persist_directory] = newobj[t]]
    /\ pc' = [pc EXCEPT ![t] = "return"]
    /\ UNCHANGED <<instances, conns, reachable, arg, newobj, rag, newconn, db,
                   returned, seen, known, failedOn, ops>>

\* Line 154: return _rag_instances[persist_directory].
get_rag_instance_return(t) ==
    /\ pc[t] = "return"
    /\ rag' = [rag EXCEPT ![t] = rag_instances[arg[t].persist_directory]]
    /\ returned' = [returned EXCEPT ![arg[t].persist_directory] =
                       @ \cup {rag_instances[arg[t].persist_directory]}]
    /\ pc' = [pc EXCEPT ![t] = "have"]
    /\ UNCHANGED <<rag_instances, instances, conns, reachable, arg, newobj,
                   newconn, db, seen, known, failedOn, ops>>

\* The steps of one get_rag_instance call by thread t.
get_rag_instance(t) ==
    \/ get_rag_instance_check(t)
    \/ get_rag_instance_construct(t)
    \/ get_rag_instance_store(t)
    \/ get_rag_instance_return(t)

\* Variant of the property that builds a connection on every access.
vectordb_check_always_build(t) ==
    /\ pc[t] \in {"have", "got", "raised"}
    /\ ops < MaxOps
    /\ ops' = ops + 1
    /\ newconn' = [newconn EXCEPT ![t] = None]
    /\ db' = [db EXCEPT ![t] = None]
    /\ pc' = [pc EXCEPT ![t] = "build"]
    /\ UNCHANGED <<rag_instances, instances, conns, reachable, arg, newobj, rag,
                   returned, seen, known, failedOn>>

\* Line 22: the caller reads rag.vectordb (from retrieve or get_stats):
\* if self._vectordb is None.
vectordb_check(t) ==
    /\ pc[t] \in {"have", "got", "raised"}
    /\ ops < MaxOps
    /\ ops' = ops + 1
    /\ newconn' = [newconn EXCEPT ![t] = None]
    /\ db' = [db EXCEPT ![t] = None]
    /\ pc' = [pc EXCEPT ![t] =
                IF instances[rag[t]].vectordb = None THEN "build" ELSE "vreturn"]
    /\ UNCHANGED <<rag_instances, instances, conns, reachable, arg, newobj, rag,
                   returned, seen, known, failedOn>>

\* Variant of the connection attempt that memoizes its failure in _vectordb
\* (as connection 0, which was never built).
vectordb_build_caching_failure(t) ==
    /\ pc[t] = "build"
    /\ IF reachable
       THEN /\ conns' = Append(conns, Chroma(rag[t]))
            /\ newconn' = [newconn EXCEPT ![t] = Len(conns) + 1]
            /\ pc' = [pc EXCEPT ![t] = "assign"]
            /\ UNCHANGED <<failedOn, instances>>
       ELSE /\ pc' = [pc EXCEPT ![t] = "raised"]
            /\ failedOn' = failedOn \cup {rag[t]}
            /\ instances' = [instances EXCEPT ![rag[t]].vectordb = 0]
            /\ UNCHANGED <<conns, newconn>>
    /\ UNCHANGED <<rag_instances, reachable, arg, newobj, rag, db,
                   returned, seen, known, ops>>

\* Lines 24-32, right-hand side: DashScopeEmbeddings(...) and Chroma(...).  With
\* the service unreachable the constructor raises and the property is left
\* before the assignment.
vectordb_build(t) ==
    /\ pc[t] = "build"
    /\ IF reachable
       THEN /\ conns' = Append(conns, Chroma(rag[t]))
            /\ newconn' = [newconn EXCEPT ![t] = Len(conns) + 1]
            /\ pc' = [pc EXCEPT ![t] = "assign"]
            /\ UNCHANGED failedOn
       ELSE /\ pc' = [pc EXCEPT ![t] = "raised"]
            /\ failedOn' = failedOn \cup {rag[t]}
            /\ UNCHANGED <<conns, newconn>>
    /\ UNCHANGED <<rag_instances, instances, reachable, arg, newobj, rag, db,
                   returned, seen, known, ops>>

\* Line 28, the assignment: self._vectordb = <the new connection>.
vectordb_assign(t) ==
    /\ pc[t] = "assign"
    /\ instances' = [instances EXCEPT ![rag[t]].vectordb = newconn[t]]
    /\ pc' = [pc EXCEPT ![t] = "vreturn"]
    /\ UNCHANGED <<rag_instances, conns, reachable, arg, newobj, rag, newconn, db,
                   returned, seen, known, failedOn, ops>>

\* Line 34: return self._vectordb.
vectordb_return(t) ==
    /\ pc[t] = "vreturn"
    /\ db' = [db EXCEPT ![t] = instances[rag[t]].vectordb]
    /\ pc' = [pc EXCEPT ![t] = "got"]
    /\ UNCHANGED <<rag_instances, instances, conns, reachable, arg, newobj, rag,
                   newconn, returned, seen, known, failedOn, ops>>

\* The steps of one access to the vectordb property by thread t.
vectordb(t) ==
    \/ vectordb_check(t)
    \/ vectordb_build(t)
    \/ vectordb_assign(t)
    \/ vectordb_return(t)

\* The backing service (embedding endpoint, store directory) comes and goes.
\* Only its state at a connection attempt is ever observed, so changes are
\* taken when an attempt is about to be made.
ServiceChange ==
    /\ \E t \in Threads : pc[t] = "build"
    /\ reachable' = ~reachable
    /\ UNCHANGED <<rag_instances, instances, conns, pc, arg, newobj, rag, newconn,
                   db, returned, seen, known, failedOn, ops>>

NextRegistry ==
    \/ \E t \in Threads : get_rag_instance_call(t)
    \/ \E t \in Threads : get_rag_instance(t)
    \/ \E t \in Threads : vectordb(t)
    \/ ServiceChange

(***************************************************************************)
(* Claims about the instance cache (checked under Spec).                   *)
(***************************************************************************)

InstancesFor(l) == {i \in 1..Len(instances) : instances[i].persist_directory = l}
ConnsFor(l) == {c \in 1..Len(conns) : conns[c].persist_directory = l}

\* C1: under any interleaving of first-time get_rag_instance calls and first
\* vectordb accesses, at most one OptimizedRAG instance and at most one store
\* connection have ever been constructed for each storage location.
C1_AtMostOneHandlePerLocation ==
    \A l \in Locations :
        /\ Cardinality(InstancesFor(l)) <= 1
        /\ Cardinality(ConnsFor(l)) <= 1

\* A value of _vectordb is either None or a connection that was really built.
IsBuiltConn(c) == c \in 1..Len(conns)

\* C2: a failed connection attempt raises to the caller and caches nothing
\* (the instance and the registry are left as they were, _vectordb never holds
\* anything but None or a built connection); an attempt made while the
\* service is reachable builds a connection, also on an instance whose earlier
\* attempt failed, and an access that returns hands out a built connection.
C2_FailureNotCached ==
    /\ [](\A i \in 1..Len(instances) :
             instances[i].vectordb = None \/ IsBuiltConn(instances[i].vectordb))
    /\ [](\A t \in Threads : pc[t] = "got" => IsBuiltConn(db[t]))
    /\ [][\A t \in Threads :
            /\ (pc[t] = "build" /\ pc'[t] = "raised")
                   => (instances' = instances /\ rag_instances' = rag_instances
                       /\ conns' = conns /\ db'[t] = None)
            /\ (pc[t] \in {"have", "got", "raised"} /\ pc'[t] \in {"build", "vreturn"}
                /\ instances[rag[t]].vectordb = None)
                   => pc'[t] = "build"
            /\ (pc[t] = "build" /\ pc'[t] # "build" /\ reachable)
                   => (pc'[t] = "assign" /\ newconn'[t] \in 1..Len(conns'))]_vars

\* C2 witness: an access returned a connection on an instance on which an
\* earlier connection attempt had raised.
C2_Witness ==
    \E t \in Threads :
        /\ pc[t] = "got"
        /\ rag[t] \in failedOn
        /\ IsBuiltConn(db[t])

\* C3: once get_rag_instance has returned an instance for a location, every
\* call for that location that begins later returns that same instance and
\* constructs nothing.
C3_NoEviction ==
    \A t \in Threads :
        (pc[t] = "have" /\ seen[t] # {})
            => (seen[t] = {rag[t]} /\ newobj[t] = None)

InCall(t) == pc[t] \in {"check", "construct", "store", "return"}
Constructing(t) == pc[t] \in {"construct", "store", "build", "assign"}

\* C4: while a first-time construction for location B is underway in one
\* thread, every step of a get_rag_instance call for another location A is
\* enabled: the call never waits for the construction.
C4_NoCrossLocationBlocking ==
    \A t \in Threads, u \in Threads :
        (/\ t # u
         /\ InCall(t)
         /\ Constructing(u)
         /\ arg[t].persist_directory # arg[u].persist_directory)
            => ENABLED get_rag_instance(t)

\* C4 witness: a call for one location constructed its instance and returned
\* while an instance constructed earlier for another location was still not
\* stored by its thread.
C4_Witness ==
    \E t \in Threads, u \in Threads :
        /\ t # u
        /\ pc[t] = "have"
        /\ pc[u] = "store"
        /\ arg[t].persist_directory # arg[u].persist_directory
        /\ newobj[t] # None
        /\ newobj[u] < newobj[t]

(***************************************************************************)
(* rag_utils.py: OptimizedRAG.retrieve.                                    *)
(*                                                                         *)
(* A query is kept as its shape [words, gap, pad]: `words` words "ab"      *)
(* separated by `gap` blanks, with `pad` blanks before and after.          *)
(* The code sees only the text.  Thresholds and distance scores are        *)
(* fixed-point numbers in units of 1/Scale.  The store is identified with  *)
(* its answer for the query at hand: document i is the i-th nearest one    *)
(* and scores[i] its distance.                                             *)
(***************************************************************************)

Min(a, b) == IF a < b THEN a ELSE b
Max(a, b) == IF a < b THEN b ELSE a

\* The text of a query of the given shape, as a sequence of characters.
QueryText(q) ==
    LET body == IF q.words = 0 THEN 0 ELSE 2 * q.words + (q.words - 1) * q.gap
    IN  [i \in 1..(body + 2 * q.pad) |->
            IF i <= q.pad \/ i > q.pad + body THEN " "
            ELSE IF (i - q.pad - 1) % (q.gap + 2) = 0 THEN "a"
            ELSE IF (i - q.pad - 1) % (q.gap + 2) = 1 THEN "b"
            ELSE " "]

\* The words of s[lo..hi]; a word that runs across the middle is put together
\* from its two halves.
RECURSIVE split_range(_, _, _)
split_range(s, lo, hi) ==
    IF lo > hi THEN <<>>
    ELSE IF lo = hi THEN (IF s[lo] = " " THEN <<>> ELSE << <<s[lo]>> >>)
    ELSE LET mid == (lo + hi) \div 2
             L == split_range(s, lo, mid)
             R == split_range(s, mid + 1, hi)
         IN  IF s[mid] # " " /\ s[mid + 1] # " "
             THEN SubSeq(L, 1, Len(L) - 1) \o <<L[Len(L)] \o R[1]>> \o Tail(R)
             ELSE L \o R

\* str.split() without arguments (line 88): the maximal runs of non-blank
\* characters, in order; blank runs separate and are dropped.
split(s) == split_range(s, 1, Len(s))

\* Variant of _estimate_k with inclusive comparisons.
estimate_k_inclusive(text) ==
    LET word_count == Len(split(text))
    IN  IF word_count <= 20 THEN 2
        ELSE IF word_count <= 50 THEN 3
        ELSE 4

\* OptimizedRAG._estimate_k (lines 79-95).
estimate_k(text) ==
    LET word_count == Len(split(text))
    IN  IF word_count < 20 THEN 2
        ELSE IF word_count < 50 THEN 3
        ELSE 4

\* Lines 52-53: k as used, from the caller's k and the query.
select_k(text, kA) == IF kA = None THEN estimate_k(text) ELSE kA

\* Variant of the fetch-pool rule that triples only an estimated k and uses
\* a supplied k as the pool size itself.
select_fetch_k_estimated_only(kUsed, kA, fA) ==
    IF fA = None THEN (IF kA = None THEN kUsed * 3 ELSE kUsed) ELSE fA

\* Lines 56-57: fetch_k as used, from the caller's fetch_k and the k in use.
\* (kA, the caller's k, is not consulted.)
select_fetch_k(kUsed, kA, fA) == IF fA = None THEN kUsed * 3 ELSE fA

\* Lines 51-59: parameter selection.
retrieve_params ==
    /\ rpc = "start"
    /\ k' = select_k(QueryText(query), kArg)
    /\ fetch_k' = select_fetch_k(k', kArg, fetchArg)
    /\ rpc' = "mmr"
    /\ UNCHANGED <<query, kArg, fetchArg, thresholdArg, scores, docs,
                   docs_with_scores, result, mmrCalls, simCalls>>

\* The sequences of n distinct elements of S.
InjSeqs(S, n) ==
    {s \in [1..n -> S] : \A i \in 1..n, j \in 1..n : i # j => s[i] # s[j]}

\* The store's max_marginal_relevance_search(query, k, fetch_k, lambda_mult):
\* the candidates are the fetch_k nearest documents, of which min(k, number
\* of candidates) are selected.  Which ones, and in what order, depends on
\* the embeddings and on lambda_mult and is left to the store.
mmr_results(kUsed, fUsed) ==
    LET pool == 1..Min(fUsed, Len(scores))
        n == Max(0, Min(kUsed, Cardinality(pool)))
    IN  InjSeqs(pool, n)

\* The store's similarity_search_with_score(query, k=n): the n nearest
\* documents with their distances, nearest first.
similarity_search_with_score(n) ==
    [i \in 1..Min(n, Len(scores)) |-> [doc |-> i, score |-> scores[i]]]

\* Variant of the MMR search step that tries again after a failing store call.
retrieve_mmr_retrying ==
    /\ rpc = "mmr"
    /\ mmrCalls' = mmrCalls + 1
    /\ \/ /\ \E ds \in mmr_results(k, fetch_k) : docs' = ds
          /\ rpc' = IF thresholdArg # None THEN "filter" ELSE "return"
       \/ /\ rpc' = "mmr"
          /\ UNCHANGED docs
    /\ UNCHANGED <<query, kArg, fetchArg, thresholdArg, k, fetch_k, scores,
                   docs_with_scores, result, simCalls>>

\* Lines 61-67: the MMR search.  A failing store call raises out of retrieve.
retrieve_mmr ==
    /\ rpc = "mmr"
    /\ mmrCalls' = mmrCalls + 1
    /\ \/ /\ \E ds \in mmr_results(k, fetch_k) : docs' = ds
          /\ rpc' = IF thresholdArg # None THEN "filter" ELSE "return"
       \/ /\ rpc' = "raised"
          /\ UNCHANGED docs
    /\ UNCHANGED <<query, kArg, fetchArg, thresholdArg, k, fetch_k, scores,
                   docs_with_scores, result, simCalls>>

\* The prefix docs[:1].
FirstOf(ds) == SubSeq(ds, 1, Min(1, Len(ds)))

\* Lines 117-120: the documents whose score passes, in the order of the re-query.
passing(dws, threshold) ==
    LET idx == SelectSeq([i \in 1..Len(dws) |-> i],
                         LAMBDA i : dws[i].score < Scale - threshold)
    IN  [j \in 1..Len(idx) |-> dws[idx[j]].doc]

\* Variant of the fallback that returns the empty filtered list as it is.
filter_result_no_fallback(ds, dws, threshold) == passing(dws, threshold)

\* Variant of the pass test with an inclusive comparison.
filter_result_inclusive(ds, dws, threshold) ==
    LET idx == SelectSeq([i \in 1..Len(dws) |-> i],
                         LAMBDA i : dws[i].score <= Scale - threshold)
        filtered == [j \in 1..Len(idx) |-> dws[idx[j]].doc]
    IN  IF filtered # <<>> THEN filtered ELSE FirstOf(ds)

\* Lines 115-122 of _filter_by_relevance: filter, or docs[:1] when nothing passes.
filter_result(ds, dws, threshold) ==
    LET filtered == passing(dws, threshold)
    IN  IF filtered # <<>> THEN filtered ELSE FirstOf(ds)

\* Lines 69-75 with _filter_by_relevance (lines 97-122): the re-query for
\* scores, the filter, and the return of the filtered documents.
retrieve_filter ==
    /\ rpc = "filter"
    /\ simCalls' = simCalls + 1
    /\ \/ /\ docs_with_scores' = similarity_search_with_score(Len(docs))
          /\ result' = filter_result(docs, docs_with_scores', thresholdArg)
          /\ rpc' = "done"
       \/ /\ rpc' = "raised"
          /\ UNCHANGED <<docs_with_scores, result>>
    /\ UNCHANGED <<query, kArg, fetchArg, thresholdArg, k, fetch_k, scores,
                   docs, mmrCalls>>

\* Line 77: return docs.
retrieve_return ==
    /\ rpc = "return"
    /\ result' = docs
    /\ rpc' = "done"
    /\ UNCHANGED <<query, kArg, fetchArg, thresholdArg, k, fetch_k, scores,
                   docs, docs_with_scores, mmrCalls, simCalls>>

Queries(W) == {[words |-> w, gap |-> g, pad |-> p] : w \in W, g \in 1..MaxGap, p \in 0..1}
KArgs == {None} \cup 0..MaxK
FetchArgs == {None} \cup 0..MaxFetchK
ThresholdArgs == {None} \cup 0..Scale

\* The stores of at most MaxDocs documents: their distances, nearest first.
Stores ==
    UNION {{s \in [1..n -> 0..MaxScore] : \A i \in 1..n, j \in 1..n : i < j => s[i] <= s[j]}
           : n \in 0..MaxDocs}

\* The registry variables while no thread runs.
RegistryIdle ==
    /\ InitRegistry
    /\ reachable = TRUE

\* A retrieve call about to select its parameters, for every query shape.
InitParams ==
    /\ RegistryIdle
    /\ ReaskIdle
    /\ NameIdle
    /\ TtsIdle
    /\ VsIdle
    /\ ReqIdle
    /\ FactCheckIdle
    /\ rpc = "start"
    /\ query \in Queries(0..MaxWords)
    /\ kArg \in KArgs
    /\ fetchArg \in FetchArgs
    /\ thresholdArg = None
    /\ k = None
    /\ fetch_k = None
    /\ scores = <<>>
    /\ docs = <<>>
    /\ docs_with_scores = <<>>
    /\ result = <<>>
    /\ mmrCalls = 0
    /\ simCalls = 0

NextParams == retrieve_params /\ UNCHANGED <<regVars, fcVars, moreVars>>

SpecParams == InitParams /\ [][NextParams]_vars

\* Word counts on each side of the two steps of _estimate_k.
SampleWords == {5, 20, 50}

\* A retrieve call against a store.
InitRetrieve ==
    /\ RegistryIdle
    /\ ReaskIdle
    /\ NameIdle
    /\ TtsIdle
    /\ VsIdle
    /\ ReqIdle
    /\ FactCheckIdle
    /\ rpc = "start"
    /\ query \in {q \in Queries(SampleWords) : q.gap = 1 /\ q.pad = 0}
    /\ kArg \in KArgs
    /\ fetchArg \in FetchArgs
    /\ thresholdArg \in ThresholdArgs
    /\ k = None
    /\ fetch_k = None
    /\ scores \in Stores
    /\ docs = <<>>
    /\ docs_with_scores = <<>>
    /\ result = <<>>
    /\ mmrCalls = 0
    /\ simCalls = 0

NextRetrieve ==
    /\ \/ retrieve_params
       \/ retrieve_mmr
       \/ retrieve_filter
       \/ retrieve_return
    /\ UNCHANGED <<regVars, fcVars, moreVars>>

SpecRetrieve == InitRetrieve /\ [][NextRetrieve]_vars

(***************************************************************************)
(* Claims about retrieve's parameters (checked under SpecParams).          *)
(***************************************************************************)

ParamsSelected == rpc \notin {"none", "start"}

C6_FetchKIsThreeK ==
    (ParamsSelected /\ fetchArg = None) =>
        /\ fetch_k = 3 * k
        /\ kArg # None => k = kArg

\* C6 witness: a caller-supplied k = 2 without fetch_k gave fetch_k = 6.
C6_Witness ==
    /\ ParamsSelected
    /\ fetchArg = None
    /\ kArg = 2
    /\ fetch_k = 6

\* C7: whatever k and fetch_k the caller supplies or omits, the parameters
\* handed to the store satisfy k > 0 and fetch_k >= k.
C7_ParamsInvariant ==
    ParamsSelected => (k > 0 /\ fetch_k >= k)

(***************************************************************************)
(* Claims about the relevance filter (checked under SpecRetrieve).         *)
(***************************************************************************)

Filtered == rpc = "done" /\ thresholdArg # None

\* The documents of the re-query that pass the test score < 1 - threshold.
PassingDocs ==
    {docs_with_scores[i].doc : i \in
        {j \in 1..Len(docs_with_scores) :
            docs_with_scores[j].score < Scale - thresholdArg}}

Range(s) == {s[i] : i \in 1..Len(s)}

\* C8: with a relevance threshold, retrieve returns at least one document
\* whenever the MMR search produced at least one.
C8_NeverEmpty ==
    (Filtered /\ Len(docs) >= 1) => Len(result) >= 1

\* C8 witness: no document passed the test and one document was returned.
C8_Witness ==
    /\ Filtered
    /\ Len(docs) >= 2
    /\ PassingDocs = {}
    /\ Len(result) = 1

\* C9: when no candidate passes the relevance test, the one document returned
\* has the lowest distance score of the similarity-score re-query.
C9_FallbackIsBestScoring ==
    (Filtered /\ PassingDocs = {} /\ Len(docs_with_scores) >= 1) =>
        /\ Len(result) = 1
        /\ \A i \in 1..Len(docs_with_scores) :
              scores[result[1]] <= docs_with_scores[i].score

\* C10: with a relevance threshold t and at least one passing candidate,
\* retrieve returns exactly the documents of the re-query whose score is
\* strictly below 1 - t, each once, in the order of the re-query.
C10_ExactlyThePassing ==
    (Filtered /\ PassingDocs # {}) =>
        /\ Range(result) = PassingDocs
        /\ Len(result) = Cardinality(PassingDocs)
        /\ \A i \in 1..Len(docs_with_scores) :
              docs_with_scores[i].score = Scale - thresholdArg
                  => docs_with_scores[i].doc \notin Range(result)
        /\ \A a \in 1..Len(result), b \in 1..Len(result) :
              a < b => \E i \in 1..Len(docs_with_scores), j \in 1..Len(docs_with_scores) :
                          /\ i < j
                          /\ docs_with_scores[i].doc = result[a]
                          /\ docs_with_scores[j].doc = result[b]

\* C10 witness: one document passed and was returned, and a document whose
\* score is exactly 1 - t was left out.
C10_Witness ==
    /\ Filtered
    /\ PassingDocs # {}
    /\ \E i \in 1..Len(docs_with_scores) :
          /\ docs_with_scores[i].score = Scale - thresholdArg
          /\ docs_with_scores[i].doc \notin Range(result)

\* C11: a failing store call ends the retrieve call with an error and without
\* a result, and nothing is retried: one retrieve call makes at most one MMR
\* search and at most one similarity-score query.
C11_NoRetry ==
    /\ mmrCalls <= 1
    /\ simCalls <= 1
    /\ rpc = "raised" => (result = <<>> /\ mmrCalls = 1)
    /\ (rpc = "raised" /\ simCalls = 1) => docs_with_scores = <<>>

\* C11 witness: the similarity-score query failed after a successful MMR
\* search that had selected documents: the call raised after one call of each.
C11_Witness ==
    /\ rpc = "raised"
    /\ mmrCalls = 1
    /\ simCalls = 1
    /\ Len(docs) >= 1

(***************************************************************************)
(* Texts.  A text is a sequence of one-character strings, so that          *)
(* str.lower() and the substring test `x in y` are computed and not        *)
(* assumed.                                                                *)
(***************************************************************************)

UpperCase == <<"A","B","C","D","E","F","G","H","I","J","K","L","M","N","O","P","Q","R","S","T","U","V","W","X","Y","Z">>
LowerCase == <<"a","b","c","d","e","f","g","h","i","j","k","l","m","n","o","p","q","r","s","t","u","v","w","x","y","z">>

lower_char(c) ==
    IF \E i \in 1..Len(UpperCase) : UpperCase[i] = c
    THEN LowerCase[CHOOSE i \in 1..Len(UpperCase) : UpperCase[i] = c]
    ELSE c

\* str.lower().
lower(s) == [i \in 1..Len(s) |-> lower_char(s[i])]

\* The substring test `x in s`.
contains(x, s) ==
    \E i \in 0..(Len(s) - Len(x)) : SubSeq(s, i + 1, i + Len(x)) = x

(***************************************************************************)
(* fact_check_utils.py: optimize_search_query.                             *)
(***************************************************************************)

kw_seabird == <<"s","e","a","b","i","r","d">>
kw_petrel == <<"p","e","t","r","e","l">>
kw_bird == <<"b","i","r","d">>
kw_endemic == <<"e","n","d","e","m","i","c">>
kw_madeira == <<"m","a","d","e","i","r","a">>
kw_conservation == <<"c","o","n","s","e","r","v","a","t","i","o","n">>
kw_endangered == <<"e","n","d","a","n","g","e","r","e","d">>
kw_breeding == <<"b","r","e","e","d","i","n","g">>
kw_nesting == <<"n","e","s","t","i","n","g">>
kw_habitat == <<"h","a","b","i","t","a","t">>
kw_species == <<"s","p","e","c","i","e","s">>
kw_population == <<"p","o","p","u","l","a","t","i","o","n">>

\* Line 164-165: bio_keywords.
bio_keywords ==
    <<kw_seabird, kw_petrel, kw_bird, kw_endemic, kw_madeira, kw_conservation,
      kw_endangered, kw_breeding, kw_nesting, kw_habitat, kw_species, kw_population>>

\* The page contents a retrieved document may have.  `has` names the priority
\* keywords that occur in the text in any letter case, and two contents have
\* the same `letters` exactly when they differ in letter case only; both are
\* read off the text by hand and are used in the claims only.
Contents == <<
    [text |-> <<"E","n","d","a","n","g","e","r","e","d"," ","s","e","a","b","i","r","d",","," ","B","R","E","E","D","I","N","G">>,
     has |-> {"endangered", "breeding"}, letters |-> 1],
    [text |-> <<"e","n","d","a","n","g","e","r","e","d"," ","s","e","a","b","i","r","d",","," ","b","r","e","e","d","i","n","g">>,
     has |-> {"endangered", "breeding"}, letters |-> 1],
    [text |-> <<"N","e","s","t","i","n","g"," ","o","n"," ","M","a","d","e","i","r","a">>,
     has |-> {"nesting", "madeira"}, letters |-> 2],
    [text |-> <<"M","A","D","E","I","R","A"," ","c","l","i","f","f","s">>,
     has |-> {"madeira"}, letters |-> 3],
    [text |-> <<"m","a","d","e","i","r","a"," ","c","l","i","f","f","s">>,
     has |-> {"madeira"}, letters |-> 3],
    [text |-> <<"S","t","o","r","m"," ","a","t"," ","s","e","a">>,
     has |-> {}, letters |-> 4],
    [text |-> <<"C","o","n","s","e","r","v","a","t","i","o","n"," ","p","l","a","n">>,
     has |-> {"conservation"}, letters |-> 5]
>>

\* Longer contents: two of 600 characters that agree on the first 500, one of
\* 250 characters.
LongContents == <<
    [i \in 1..600 |-> IF i <= 500 THEN "a" ELSE "b"],
    [i \in 1..600 |-> IF i <= 500 THEN "a" ELSE "c"],
    [i \in 1..250 |-> IF i <= 200 THEN "x" ELSE "y"]
>>

DocIds == 1..(Len(Contents) + Len(LongContents))

\* doc.page_content.
page_content(d) ==
    IF d <= Len(Contents) THEN Contents[d].text ELSE LongContents[d - Len(Contents)]

\* Lines 160-168: the keywords found in the first two documents.  The hits of
\* each content are tabulated once.
content_hits ==
    [d \in DocIds |->
        {i \in 1..Len(bio_keywords) : contains(bio_keywords[i], lower(page_content(d)))}]

rag_keywords(ds) ==
    {bio_keywords[i] : i \in UNION {content_hits[ds[j]] : j \in 1..Min(2, Len(ds))}}

\* Variant that looks at the first three documents.
optimize_search_query_top3(q, ds) ==
    LET hits == {bio_keywords[i] : i \in UNION {content_hits[ds[j]] : j \in 1..Min(3, Len(ds))}}
        base_query == "Zino's Petrel"
        qualified ==
            IF kw_conservation \in hits \/ kw_endangered \in hits
            THEN base_query \o " conservation status"
            ELSE IF kw_breeding \in hits \/ kw_nesting \in hits
            THEN base_query \o " breeding habitat"
            ELSE IF kw_madeira \in hits
            THEN base_query \o " Madeira island"
            ELSE base_query \o " seabird biology"
    IN  qualified \o " bird species"

\* Variant that tests the breeding rule before the conservation rule.
optimize_search_query_breeding_first(q, ds) ==
    LET hits == rag_keywords(ds)
        base_query == "Zino's Petrel"
        qualified ==
            IF kw_breeding \in hits \/ kw_nesting \in hits
            THEN base_query \o " breeding habitat"
            ELSE IF kw_conservation \in hits \/ kw_endangered \in hits
            THEN base_query \o " conservation status"
            ELSE IF kw_madeira \in hits
            THEN base_query \o " Madeira island"
            ELSE base_query \o " seabird biology"
    IN  qualified \o " bird species"

\* Variant with independent tests instead of one if/elif chain.
optimize_search_query_stacking(q, ds) ==
    LET hits == rag_keywords(ds)
        base_query == "Zino's Petrel"
        q1 == IF kw_conservation \in hits \/ kw_endangered \in hits
              THEN base_query \o " conservation status" ELSE base_query
        q2 == IF kw_breeding \in hits \/ kw_nesting \in hits
              THEN q1 \o " breeding habitat" ELSE q1
        q3 == IF kw_madeira \in hits THEN q2 \o " Madeira island" ELSE q2
        q4 == IF q3 = base_query THEN q3 \o " seabird biology" ELSE q3
    IN  q4 \o " bird species"

\* A variant that falls back on the question when no keyword is found.
optimize_search_query_asking(q, ds) ==
    LET hits == rag_keywords(ds)
        base_query == "Zino's Petrel"
        qualified ==
            IF kw_conservation \in hits \/ kw_endangered \in hits
            THEN base_query \o " conservation status"
            ELSE IF kw_breeding \in hits \/ kw_nesting \in hits
            THEN base_query \o " breeding habitat"
            ELSE IF kw_madeira \in hits
            THEN base_query \o " Madeira island"
            ELSE base_query \o " " \o q
    IN  qualified \o " bird species"

\* optimize_search_query (lines 148-186).  The question is not used.
optimize_search_query(q, ds) ==
    LET hits == rag_keywords(ds)
        base_query == "Zino's Petrel"
        qualified ==
            IF kw_conservation \in hits \/ kw_endangered \in hits
            THEN base_query \o " conservation status"
            ELSE IF kw_breeding \in hits \/ kw_nesting \in hits
            THEN base_query \o " breeding habitat"
            ELSE IF kw_madeira \in hits
            THEN base_query \o " Madeira island"
            ELSE base_query \o " seabird biology"
    IN  qualified \o " bird species"

\* The sequences of at most n elements of S.
SeqsUpTo(S, n) == UNION {[1..m -> S] : m \in 0..n}

DocSeqs == SeqsUpTo(1..Len(Contents), MaxRetrieved)

Questions == {"Where does the bird nest?", "Is it endangered?"}

\* Two document sequences agree on their first two documents up to letter case.
AgreeOnTopTwo(ds, es) ==
    /\ Min(2, Len(ds)) = Min(2, Len(es))
    /\ \A i \in 1..Min(2, Len(ds)) : Contents[ds[i]].letters = Contents[es[i]].letters

\* optimize_search_query applied to a question and documents, a second
\* time to documents that agree with the first on the top two up to case, and
\* a third time to the first documents and another question.
InitOptimize ==
    /\ RegistryIdle
    /\ NameIdle
    /\ TtsIdle
    /\ VsIdle
    /\ ReqIdle
    /\ RetrieveIdle
    /\ fpc = "optimize"
    /\ question \in Questions
    /\ other_question \in Questions \ {question}
    /\ reasked_query = ""
    /\ retrieved_docs \in DocSeqs
    /\ other_docs \in {es \in DocSeqs : AgreeOnTopTwo(retrieved_docs, es)}
    /\ optimized_query = ""
    /\ other_query = ""
    /\ raw_results = <<>>
    /\ results = <<>>
    /\ WebIdle
    /\ SummarizeIdle

optimize_search_query_run ==
    /\ fpc = "optimize"
    /\ optimized_query' = optimize_search_query(question, retrieved_docs)
    /\ other_query' = optimize_search_query(question, other_docs)
    /\ reasked_query' = optimize_search_query(other_question, retrieved_docs)
    /\ fpc' = "done"
    /\ UNCHANGED <<question, retrieved_docs, other_docs, raw_results, results, webVars,
                   sumVars, other_question>>

NextOptimize ==
    optimize_search_query_run /\ UNCHANGED <<regVars, retVars, nameVars, restVars>>

SpecOptimize == InitOptimize /\ [][NextOptimize]_vars

(***************************************************************************)
(* Claims about optimize_search_query (checked under SpecOptimize).        *)
(***************************************************************************)

\* The priority keywords that occur, in any case, in the first two documents.
TopTwoHas(ds) == UNION {Contents[ds[i]].has : i \in 1..Min(2, Len(ds))}

\* C12: the qualifier is chosen by the first matching rule, in this order:
\* 'conservation' or 'endangered' gives "conservation status", else 'breeding'
\* or 'nesting' gives "breeding habitat", else 'madeira' gives "Madeira island",
\* else "seabird biology".
C12_PriorityOrder ==
    fpc = "done" =>
        LET has == TopTwoHas(retrieved_docs)
        IN  optimized_query =
               IF "conservation" \in has \/ "endangered" \in has
               THEN "Zino's Petrel conservation status bird species"
               ELSE IF "breeding" \in has \/ "nesting" \in has
               THEN "Zino's Petrel breeding habitat bird species"
               ELSE IF "madeira" \in has
               THEN "Zino's Petrel Madeira island bird species"
               ELSE "Zino's Petrel seabird biology bird species"

\* C12 witness: documents with both 'endangered' and 'breeding' gave the
\* conservation qualifier.
C12_Witness ==
    /\ fpc = "done"
    /\ {"endangered", "breeding"} \subseteq TopTwoHas(retrieved_docs)
    /\ optimized_query = "Zino's Petrel conservation status bird species"

\* C13: two document sequences that agree on their first two documents up to
\* letter case give the same refined query, whatever follows from position 3.
C13_OnlyTopTwoCaseInsensitive ==
    (fpc = "done" /\ AgreeOnTopTwo(retrieved_docs, other_docs)) =>
        optimized_query = other_query

\* C13 witness: the two sequences differ in the case of a top document and in
\* their third document, whose keywords would choose another qualifier.
C13_Witness ==
    /\ fpc = "done"
    /\ Len(retrieved_docs) = 3
    /\ Len(other_docs) = 3
    /\ retrieved_docs[1] # other_docs[1]
    /\ TopTwoHas(retrieved_docs) = {"madeira"}
    /\ "conservation" \in Contents[other_docs[3]].has
    /\ Contents[retrieved_docs[3]].has = {}
    /\ optimized_query = other_query

\* C14: the refined query is the base phrase, exactly one of the four
\* qualifiers, and the trailing phrase: one of four texts.
C14_ExactlyOneQualifier ==
    fpc = "done" =>
        optimized_query \in {"Zino's Petrel conservation status bird species",
                             "Zino's Petrel breeding habitat bird species",
                             "Zino's Petrel Madeira island bird species",
                             "Zino's Petrel seabird biology bird species"}

\* C14 witness: documents that match all three keyword rules still got one
\* qualifier.
C14_Witness ==
    /\ fpc = "done"
    /\ {"endangered", "breeding", "madeira"} \subseteq TopTwoHas(retrieved_docs)
    /\ optimized_query = "Zino's Petrel conservation status bird species"

(***************************************************************************)
(* fact_check_utils.py: filter_search_results.                             *)
(* Characters outside ASCII are written by their code point.               *)
(***************************************************************************)

\* Lines 203-207: relevant_keywords.
relevant_keywords == <<
    <<"p","e","t","r","e","l">>,
    <<"b","i","r","d">>,
    <<"s","e","a","b","i","r","d">>,
    <<"s","p","e","c","i","e","s">>,
    <<"m","a","d","e","i","r","a">>,
    <<"c","o","n","s","e","r","v","a","t","i","o","n">>,
    <<"e","n","d","a","n","g","e","r","e","d">>,
    <<"b","r","e","e","d","i","n","g">>,
    <<"h","a","b","i","t","a","t">>,
    <<"o","r","n","i","t","h","o","l","o","g","y">>,
    <<"w","i","l","d","l","i","f","e">>,
    <<"p","t","e","r","o","d","r","o","m","a">>,
    <<"f","r","e","i","r","a">>,
    <<"e","n","d","e","m","i","c">>,
    <<"b","i","o","d","i","v","e","r","s","i","t","y">>
>>

\* Lines 210-213: irrelevant_keywords.
irrelevant_keywords == <<
    <<"f","r","a","m","e","w","o","r","k">>,
    <<"p","r","o","g","r","a","m","m","i","n","g">>,
    <<"c","o","d","e">>,
    <<"s","o","f","t","w","a","r","e">>,
    <<"a","p","i">>,
    <<"r","u","s","t">>,
    <<"U+7F16","U+7A0B">>,
    <<"U+6846","U+67B6">>,
    <<"U+5F00","U+53D1">>,
    <<"U+4EE3","U+7801">>,
    <<"g","i","t","h","u","b">>,
    <<"n","p","m">>,
    <<"c","a","r","g","o">>
>>

\* Line 233: the species names looked for in the title.
species_names == <<
    <<"Z","i","n","o","s"," ","P","e","t","r","e","l">>,
    <<"m","a","d","e","i","r","a"," ","P","e","t","r","e","l">>
>>

\* The results the first provider may return; a result is a dict and may lack
\* a key.
RawResults == <<
    [title |-> <<"Z","i","n","o","s"," ","P","e","t","r","e","l">>,
     body |-> <<"r","a","r","e">>,
     href |-> <<"u","1">>],
    [title |-> <<"Z","I","N","O","S"," ","P","E","T","R","E","L">>,
     href |-> <<"u","2">>],
    [title |-> <<"R","u","s","t"," ","A","P","I">>,
     body |-> <<"s","e","a","b","i","r","d">>,
     href |-> <<"u","3">>],
    [title |-> <<"W","e","a","t","h","e","r">>,
     body |-> <<"s","u","n","n","y">>,
     href |-> <<"u","4">>],
    [title |-> <<"B","i","r","d"," ","f","a","c","t","s">>,
     body |-> <<"r","a","p","i","d"," ","d","e","c","l","i","n","e">>,
     href |-> <<"u","5">>],
    [title |-> <<"M","a","d","e","i","r","a"," ","P","e","t","r","e","l"," ","s","o","f","t","w","a","r","e">>,
     body |-> <<>>,
     href |-> <<"u","6">>],
    [body |-> <<"W","i","l","d","l","i","f","e"," ","H","a","b","i","t","a","t">>,
     href |-> <<"u","7">>]
>>

\* What each of these results contains, in any letter case, read off its title
\* and body by hand and used in the claims only: a blacklisted term, a
\* whitelisted term, a species name in the title.
RawTags == <<
    [black |-> FALSE, white |-> TRUE, subject |-> TRUE],
    [black |-> FALSE, white |-> TRUE, subject |-> TRUE],
    [black |-> TRUE, white |-> TRUE, subject |-> FALSE],
    [black |-> FALSE, white |-> FALSE, subject |-> FALSE],
    [black |-> TRUE, white |-> TRUE, subject |-> FALSE],
    [black |-> TRUE, white |-> TRUE, subject |-> TRUE],
    [black |-> FALSE, white |-> TRUE, subject |-> FALSE]
>>

ResultIds == 1..Len(RawResults)

\* dict.get(key, default).
get(d, key, default) == IF key \in DOMAIN d THEN d[key] ELSE default

\* Lines 216-218: title, body and combined of a result.
title_of(r) == lower(get(RawResults[r], "title", <<>>))
body_of(r) == lower(get(RawResults[r], "body", <<>>))
combined_of(r) == title_of(r) \o <<" ">> \o body_of(r)

\* Variant of the blacklist test that finds nothing.
has_irrelevant_never == [r \in ResultIds |-> FALSE]

\* Line 221: has_irrelevant, tabulated for each result.
has_irrelevant ==
    [r \in ResultIds |->
        \E i \in 1..Len(irrelevant_keywords) : contains(irrelevant_keywords[i], combined_of(r))]

\* Variant of the whitelist test that looks at the body only.
has_relevant_body_only ==
    [r \in ResultIds |->
        \E i \in 1..Len(relevant_keywords) : contains(relevant_keywords[i], body_of(r))]

\* Line 227: has_relevant, tabulated for each result.
has_relevant ==
    [r \in ResultIds |->
        \E i \in 1..Len(relevant_keywords) : contains(relevant_keywords[i], combined_of(r))]

\* Lines 232-233: the title, lower-cased once more, contains one of the names
\* as they are written in the list.
title_has_name ==
    [r \in ResultIds |->
        \E i \in 1..Len(species_names) : contains(species_names[i], lower(title_of(r)))]

\* Variant of the loop that puts each kept result in front of the list.
RECURSIVE filter_from_prepending(_, _, _)
filter_from_prepending(rs, i, filtered) ==
    IF i > Len(rs) THEN filtered
    ELSE IF has_irrelevant[rs[i]] THEN filter_from_prepending(rs, i + 1, filtered)
    ELSE IF has_relevant[rs[i]] THEN filter_from_prepending(rs, i + 1, <<rs[i]>> \o filtered)
    ELSE IF title_has_name[rs[i]] THEN filter_from_prepending(rs, i + 1, <<rs[i]>> \o filtered)
    ELSE filter_from_prepending(rs, i + 1, filtered)

\* Lines 215-234: the loop over the results, from result i on.
RECURSIVE filter_from(_, _, _)
filter_from(rs, i, filtered) ==
    IF i > Len(rs) THEN filtered
    ELSE IF has_irrelevant[rs[i]] THEN filter_from(rs, i + 1, filtered)
    ELSE IF has_relevant[rs[i]] THEN filter_from(rs, i + 1, Append(filtered, rs[i]))
    ELSE IF title_has_name[rs[i]] THEN filter_from(rs, i + 1, Append(filtered, rs[i]))
    ELSE filter_from(rs, i + 1, filtered)

\* Variant of filter_search_results with the prepending loop.
filter_search_results_prepending(rs, q) == filter_from_prepending(rs, 1, <<>>)

\* filter_search_results (lines 189-237).  The question is not used.
filter_search_results(rs, q) == filter_from(rs, 1, <<>>)

ResultSeqs == SeqsUpTo(ResultIds, MaxResults)

\* filter_search_results applied to a provider's raw results.
InitFilter ==
    /\ RegistryIdle
    /\ ReaskIdle
    /\ NameIdle
    /\ TtsIdle
    /\ VsIdle
    /\ ReqIdle
    /\ RetrieveIdle
    /\ fpc = "filter"
    /\ question \in Questions
    /\ retrieved_docs = <<>>
    /\ other_docs = <<>>
    /\ optimized_query = ""
    /\ other_query = ""
    /\ raw_results \in ResultSeqs
    /\ results = <<>>
    /\ WebIdle
    /\ SummarizeIdle

filter_search_results_run ==
    /\ fpc = "filter"
    /\ results' = filter_search_results(raw_results, question)
    /\ fpc' = "done"
    /\ UNCHANGED <<question, retrieved_docs, other_docs, optimized_query,
                   other_query, raw_results, webVars, sumVars>>

NextFilter == filter_search_results_run /\ UNCHANGED <<regVars, retVars, moreVars>>

SpecFilter == InitFilter /\ [][NextFilter]_vars

(***************************************************************************)
(* Claims about filter_search_results (checked under SpecFilter).          *)
(***************************************************************************)

\* C15: no result in the output contains a blacklisted term, whatever
\* whitelisted term or species name it contains as well.
C15_BlacklistWins ==
    fpc = "done" => \A i \in 1..Len(results) : ~RawTags[results[i]].black

\* C15 witness: a result with a blacklisted term, a whitelisted term and a
\* species name in its title was in the input and was dropped, while another
\* result was kept.
C15_Witness ==
    /\ fpc = "done"
    /\ \E i \in 1..Len(raw_results) :
          /\ RawTags[raw_results[i]].black
          /\ RawTags[raw_results[i]].white
          /\ RawTags[raw_results[i]].subject
          /\ raw_results[i] \notin Range(results)
    /\ Len(results) >= 1

\* C16: a result without blacklisted term is kept if and only if it contains a
\* whitelisted term or its title contains a species name in any letter case.
C16_KeptIffRelevant ==
    fpc = "done" =>
        \A i \in 1..Len(raw_results) :
            ~RawTags[raw_results[i]].black =>
                (raw_results[i] \in Range(results)
                    <=> (RawTags[raw_results[i]].white \/ RawTags[raw_results[i]].subject))

\* C16 witness: a result whose only text is a title with the species name in
\* capitals was kept, and a result with no term at all was dropped.
C16_Witness ==
    /\ fpc = "done"
    /\ \E i \in 1..Len(results) :
          /\ RawTags[results[i]].subject
          /\ "body" \notin DOMAIN RawResults[results[i]]
    /\ \E i \in 1..Len(raw_results) :
          /\ ~RawTags[raw_results[i]].black
          /\ ~RawTags[raw_results[i]].white
          /\ raw_results[i] \notin Range(results)

\* s is t with some elements left out: the same elements in the same relative
\* order, none more often than in t.
IsSubsequence(s, t) ==
    \E f \in [1..Len(s) -> 1..Len(t)] :
        /\ \A i \in 1..Len(s) : s[i] = t[f[i]]
        /\ \A i \in 1..Len(s), j \in 1..Len(s) : i < j => f[i] < f[j]

\* C17: the output is a subsequence of the raw results.
C17_Subsequence ==
    fpc = "done" => IsSubsequence(results, raw_results)

\* C17 witness: two different results were kept, in the provider's order, and
\* a third one was dropped.
C17_Witness ==
    /\ fpc = "done"
    /\ Len(raw_results) = 3
    /\ Len(results) = 2
    /\ results[1] # results[2]

(***************************************************************************)
(* fact_check_utils.py: web_search_supplement.                             *)
(***************************************************************************)

\* Lines 295 and 334: the number of characters of a result's text shown.
SnippetLen == 150

\* The results the Tavily client may return; a result is a dict and may lack
\* a key.
TavilyResults == <<
    [title |-> <<"Z","i","n","o","'","s"," ","P","e","t","r","e","l">>,
     content |-> <<"E","n","d","e","m","i","c"," ","s","e","a","b","i","r","d">>,
     url |-> <<"t","1">>],
    [title |-> <<"C","a","r","g","o"," ","c","r","a","t","e","s">>,
     content |-> <<"R","u","s","t"," ","f","r","a","m","e","w","o","r","k">>,
     url |-> <<"t","2">>],
    [content |-> <<"H","o","t","e","l"," ","d","e","a","l","s">>,
     url |-> <<"t","3">>]
>>

\* What each of these results contains, in any letter case, read off by hand
\* and used in the claims only.
TavilyTags == <<
    [black |-> FALSE, white |-> TRUE, subject |-> FALSE],
    [black |-> TRUE, white |-> FALSE, subject |-> FALSE],
    [black |-> FALSE, white |-> FALSE, subject |-> FALSE]
>>

TavilyIds == 1..Len(TavilyResults)

\* Line 326: a falsy response, a dict without 'results', or a dict with them.
Responses ==
    {[kind |-> "None"], [kind |-> "dict"]}
        \cup {[kind |-> "results", results |-> rs] : rs \in SeqsUpTo(TavilyIds, MaxResults)}

UseWebSearch == BOOLEAN
Providers == {"duckduckgo", "tavily", "google"}
TavilyKeys == {"", "tvly-your-api-key", "tvly-live"}
Languages == {"English", "Portuguese", "portuguese"}
\* Line 240: retrieved_docs is None or empty, or holds documents.
WebDocs == {<<>>, <<3>>}

\* text[:n].
prefix(text, n) == SubSeq(text, 1, Min(n, Len(text)))

Unknown == <<"U","n","k","n","o","w","n">>

\* Variant of the slice that keeps every result.
top_all(rs) == rs

\* Lines 293 and 327: results[:2].
top_two(rs) == SubSeq(rs, 1, Min(2, Len(rs)))

\* Variant of the heading that is English for "English" only.
heading_english_only(lang) ==
    IF lang = "English" THEN "U+1F310 **Internet Information:**"
    ELSE "U+1F310 **Informacao da Internet:**"

\* Lines 288-291 and 329-332: the heading of the section.
heading(lang) ==
    IF lang = "Portuguese" THEN "U+1F310 **Informacao da Internet:**"
    ELSE "U+1F310 **Internet Information:**"

\* Lines 294-298: one DuckDuckGo result in the summary.
ddg_item(r) ==
    [title |-> get(RawResults[r], "title", Unknown),
     text |-> prefix(get(RawResults[r], "body", <<>>), SnippetLen),
     url |-> get(RawResults[r], "href", <<>>)]

\* Lines 333-337: one Tavily result in the summary.
tavily_item(r) ==
    [title |-> get(TavilyResults[r], "title", Unknown),
     text |-> prefix(get(TavilyResults[r], "content", <<>>), SnippetLen),
     url |-> get(TavilyResults[r], "url", <<>>)]

\* Lines 288-300: the summary built from the filtered DuckDuckGo results.
ddg_summary(rs, lang) ==
    [kind |-> "str", heading |-> heading(lang),
     items |-> [i \in 1..Len(top_two(rs)) |-> ddg_item(top_two(rs)[i])]]

\* Lines 329-339: the summary built from the Tavily results.
tavily_summary(rs, lang) ==
    [kind |-> "str", heading |-> heading(lang),
     items |-> [i \in 1..Len(rs) |-> tavily_item(rs[i])]]

\* return None.
ReturnNone == [kind |-> "None"]

\* What a provider's library or call may raise.
Raised == {"ImportError", "Exception"}

\* Variant of the DuckDuckGo branch test that never takes the branch.
ddg_wanted_never(prov) == FALSE

\* Line 272: the DuckDuckGo branch is taken.
ddg_wanted(prov) == prov = "duckduckgo"

\* Variant of the handlers that catches a missing library only.
ddg_caught_import_only(exc) == exc = "ImportError"

\* Lines 304-308: except ImportError, except Exception.
ddg_caught(exc) == exc = "ImportError" \/ exc = "Exception"

\* Variant of the Tavily branch test that ignores the first provider.
tavily_wanted_only_configured(prov, rs) == prov = "tavily"

\* Line 312: the Tavily branch is taken.
tavily_wanted(prov, rs) == prov = "tavily" \/ (prov = "duckduckgo" /\ Len(rs) = 0)

\* Line 315: a key is set and is not the placeholder.
tavily_key_usable(key) == key # "" /\ key # "tvly-your-api-key"

\* Lines 342-345: except ImportError, except Exception.
tavily_caught(exc) == exc = "ImportError" \/ exc = "Exception"

\* An exception leaves web_search_supplement.
Propagate(exc) == [kind |-> "raised", exc |-> exc]

InitWeb ==
    /\ RegistryIdle
    /\ ReaskIdle
    /\ NameIdle
    /\ TtsIdle
    /\ VsIdle
    /\ ReqIdle
    /\ RetrieveIdle
    /\ fpc = "web"
    /\ question \in Questions
    /\ retrieved_docs \in WebDocs
    /\ other_docs = <<>>
    /\ optimized_query = ""
    /\ other_query = ""
    /\ raw_results = <<>>
    /\ results = <<>>
    /\ use_web_search \in UseWebSearch
    /\ provider \in Providers
    /\ tavily_key \in TavilyKeys
    /\ language \in Languages
    /\ ddg_call = "none"
    /\ tavily_call = "none"
    /\ response = [kind |-> "none"]
    /\ web_result = [kind |-> "none"]
    /\ SummarizeIdle

\* Variant of the switch that never turns the search off.
web_search_disabled_never(flag) == FALSE

\* Line 256: `if not use_web_search`.
web_search_disabled(flag) == ~flag

\* Lines 254-270: the switch, the query, the provider, results = [].
web_search_begin ==
    /\ fpc = "web"
    /\ IF web_search_disabled(use_web_search)
       THEN /\ web_result' = ReturnNone
            /\ fpc' = "returned"
            /\ UNCHANGED optimized_query
       ELSE /\ optimized_query' =
                  IF Len(retrieved_docs) > 0
                  THEN optimize_search_query(question, retrieved_docs)
                  ELSE "Zino's Petrel " \o question \o " bird species"
            /\ fpc' = "duckduckgo"
            /\ UNCHANGED web_result
    /\ UNCHANGED <<question, retrieved_docs, other_docs, other_query, raw_results, results,
                   use_web_search, provider, tavily_key, language, ddg_call, tavily_call,
                   response, sumVars>>

\* Lines 272-308: the DuckDuckGo branch.
web_search_duckduckgo ==
    /\ fpc = "duckduckgo"
    /\ IF ~ddg_wanted(provider)
       THEN /\ ddg_call' = "skipped"
            /\ fpc' = "tavily"
            /\ UNCHANGED <<raw_results, results, web_result>>
       ELSE \/ \E exc \in Raised :
                  /\ ddg_call' = exc
                  /\ IF ddg_caught(exc)
                     THEN /\ fpc' = "tavily"
                          /\ UNCHANGED web_result
                     ELSE /\ fpc' = "raised"
                          /\ web_result' = Propagate(exc)
                  /\ UNCHANGED <<raw_results, results>>
            \/ \E raw \in ResultSeqs :
                  /\ ddg_call' = "answered"
                  /\ raw_results' = raw
                  /\ results' = filter_search_results(raw, question)
                  /\ IF Len(results') > 0
                     THEN /\ web_result' = ddg_summary(results', language)
                          /\ fpc' = "returned"
                     ELSE /\ fpc' = "tavily"
                          /\ UNCHANGED web_result
    /\ UNCHANGED <<question, retrieved_docs, other_docs, optimized_query, other_query,
                   use_web_search, provider, tavily_key, language, tavily_call, response,
                   sumVars>>

\* Lines 312-347: the Tavily branch and the final return None.
web_search_tavily ==
    /\ fpc = "tavily"
    /\ IF ~tavily_wanted(provider, results)
       THEN /\ tavily_call' = "skipped"
            /\ web_result' = ReturnNone
            /\ fpc' = "returned"
            /\ UNCHANGED <<results, response>>
       ELSE IF ~tavily_key_usable(tavily_key)
       THEN /\ tavily_call' = "no key"
            /\ web_result' = ReturnNone
            /\ fpc' = "returned"
            /\ UNCHANGED <<results, response>>
       ELSE \/ \E exc \in Raised :
                  /\ tavily_call' = exc
                  /\ IF tavily_caught(exc)
                     THEN /\ fpc' = "returned"
                          /\ web_result' = ReturnNone
                     ELSE /\ fpc' = "raised"
                          /\ web_result' = Propagate(exc)
                  /\ UNCHANGED <<results, response>>
            \/ \E resp \in Responses :
                  /\ tavily_call' = "answered"
                  /\ fpc' = "returned"
                  /\ response' = resp
                  /\ IF resp.kind = "results"
                     THEN /\ results' = top_two(resp.results)
                          /\ web_result' = tavily_summary(results', language)
                     ELSE /\ web_result' = ReturnNone
                          /\ UNCHANGED results
    /\ UNCHANGED <<question, retrieved_docs, other_docs, optimized_query, other_query,
                   raw_results, use_web_search, provider, tavily_key, language, ddg_call,
                   sumVars>>

NextWeb ==
    /\ \/ web_search_begin
       \/ web_search_duckduckgo
       \/ web_search_tavily
    /\ UNCHANGED <<regVars, retVars, moreVars>>

SpecWeb == InitWeb /\ [][NextWeb]_vars

(***************************************************************************)
(* Claims about web_search_supplement (checked under SpecWeb).             *)
(***************************************************************************)

\* The tags of the i-th result shown in the returned summary.
ShownTags(i) ==
    IF tavily_call = "answered" THEN TavilyTags[results[i]] ELSE RawTags[results[i]]

\* A result with these tags passes the relevance filter.
Passes(tags) == ~tags.black /\ (tags.white \/ tags.subject)

\* C18: the returned summary holds at most 2 results, whichever provider
\* answered and however many results it returned.
C18_AtMostTwoResults ==
    (fpc = "returned" /\ web_result.kind = "str") => Len(web_result.items) <= 2

\* C18 witness: DuckDuckGo returned three results that all pass the filter and
\* the summary holds two of them.
C18_Witness ==
    /\ fpc = "returned"
    /\ ddg_call = "answered"
    /\ Len(results) = 3
    /\ web_result.kind = "str"
    /\ Len(web_result.items) = 2

\* Some provider yielded a result that passes the filter.
SomeUsableResult ==
    \/ /\ ddg_call = "answered"
       /\ \E i \in 1..Len(raw_results) : Passes(RawTags[raw_results[i]])
    \/ /\ tavily_call = "answered"
       /\ response.kind = "results"
       /\ \E i \in 1..Len(response.results) : Passes(TavilyTags[response.results[i]])

\* C19: when no provider yields a usable result, None is returned, not a
\* summary with zero results or with unusable ones.
C19_AbsentWhenNothingUsable ==
    (fpc = "returned" /\ ~SomeUsableResult) => web_result = ReturnNone

\* C20: every result in the returned summary passed the relevance filter.
C20_OnlyFilteredResults ==
    (fpc = "returned" /\ web_result.kind = "str") =>
        \A i \in 1..Len(web_result.items) : Passes(ShownTags(i))

\* The call ended, with a value or with an exception.
WebEnded == fpc \in {"returned", "raised"}

\* The first provider was the one to try, and it raised or none of its
\* results passed the filter.
FirstProviderFailed ==
    /\ use_web_search
    /\ provider = "duckduckgo"
    /\ \/ ddg_call \in Raised
       \/ ddg_call = "answered" /\ filter_search_results(raw_results, question) = <<>>

\* The first provider yielded at least one filtered result.
FirstProviderSucceeded ==
    /\ ddg_call = "answered"
    /\ filter_search_results(raw_results, question) # <<>>

\* The Tavily client's search was called.
TavilyInvoked == tavily_call \in {"Exception", "answered"}

\* The DuckDuckGo search was tried: it was called, or its library was missing.
DdgTried == ddg_call \in {"ImportError", "Exception", "answered"}

\* C21 as stated: a failing first provider is always followed by an invocation
\* of the keyed provider in the same call, and a succeeding one never is.
C21_FallThroughAlways ==
    WebEnded =>
        /\ FirstProviderFailed => TavilyInvoked
        /\ FirstProviderSucceeded => ~TavilyInvoked

\* C21 amended: a failing first provider is followed by the keyed provider's
\* branch in the same call, where the keyed provider is invoked whenever a
\* usable key is configured and its library is installed; a succeeding first
\* provider is never followed by the keyed provider.
C21_FallThroughWhenKeyed ==
    WebEnded =>
        /\ (FirstProviderFailed /\ tavily_key_usable(tavily_key)) =>
               (TavilyInvoked \/ tavily_call = "ImportError")
        /\ (FirstProviderFailed /\ ~tavily_key_usable(tavily_key)) =>
               tavily_call = "no key"
        /\ FirstProviderSucceeded => tavily_call = "none"

\* C21 witness: DuckDuckGo answered, nothing passed the filter, and Tavily
\* answered in the same call.
C21_Witness ==
    /\ fpc = "returned"
    /\ ddg_call = "answered"
    /\ Len(raw_results) >= 1
    /\ tavily_call = "answered"
    /\ web_result.kind = "str"

\* C22 as stated: for every provider setting, an invocation of the keyed
\* provider comes after the free provider was tried in the same call.
C22_FreeProviderFirstAlways ==
    [][(tavily_call = "none" /\ TavilyInvoked') => DdgTried]_vars

\* C22 amended: with the provider setting "duckduckgo" an invocation of the
\* keyed provider comes after the free provider was tried in the same call;
\* the keyed provider is invoked without it only with the setting "tavily".
C22_FreeProviderFirstByDefault ==
    [][(tavily_call = "none" /\ TavilyInvoked') =>
          \/ provider = "duckduckgo" /\ DdgTried
          \/ provider = "tavily" /\ ddg_call = "skipped"]_vars

\* C22 witness: with the setting "duckduckgo" both providers were called, the
\* free one first.
C22_Witness ==
    /\ fpc = "returned"
    /\ provider = "duckduckgo"
    /\ ddg_call = "Exception"
    /\ TavilyInvoked

DocLimit == 3
\* Line 63: page_content[:500].
ContentLimit == 500
\* Lines 143 and 145: page_content[:200].
ExcerptLimit == 200

\* Lines 16-39: filename_mapping.
filename_mapping == <<
    [key |-> <<"4","1","_","S","_","1","-","4","3",".","p","d","f">>,
     name |-> <<"S","i","m","o","n","s"," ","e","t"," ","a","l"," ","2","0","1","3"," ","-"," ","D",
          "i","a","b","l","o","t","i","n"," ","P","t","e","r","o","d","r","o","m","a"," ","h",
          "a","s","i","t","a","t","a"," ","B","i","o","g","r","a","p","h","y"," ","o","f"," ",
          "t","h","e"," ","B","l","a","c","k","-","c","a","p","p","e","d"," ","P","e","t","r",
          "e","l">>],
    [key |-> <<"2","0","2","4","F","l","o","o","d","Z","i","n","o","s","1","s","t","B","r","i","t",
          "a","i","n",".","p","d","f">>,
     name |-> <<"F","l","o","o","d"," ","2","0","2","4"," ","-"," ","Z","i","n","o","'","s"," ","P",
          "e","t","r","e","l"," ","o","f","f"," ","S","c","i","l","l","y"," ","n","e","w"," ",
          "t","o"," ","B","r","i","t","a","i","n">>],
    [key |-> <<"3","9","0","6","_","p","t","e","r","o","d","r","o","m","a","_","m","a","d","e","i",
          "r","a",".","p","d","f">>,
     name |-> <<"B","i","r","d","L","i","f","e"," ","I","n","t","e","r","n","a","t","i","o","n","a",
          "l"," ","2","0","2","1"," ","-"," ","P","t","e","r","o","d","r","o","m","a"," ","m",
          "a","d","e","i","r","a"," ","Z","i","n","o","s"," ","P","e","t","r","e","l">>],
    [key |-> <<"C","o","n","s","e","r","v","a","t","i","o","n","_","o","f","_","Z","i","n","o","s",
          "_","p","e","t","r","e","l","_","P","t","e","r","o","d","r","o","m","a",".","p","d",
          "f">>,
     name |-> <<"Z","i","n","o"," ","e","t"," ","a","l"," ","2","0","0","1"," ","-"," ","C","o","n",
          "s","e","r","v","a","t","i","o","n"," ","o","f"," ","Z","i","n","o","s"," ","p","e",
          "t","r","e","l"," ","P","t","e","r","o","d","r","o","m","a"," ","m","a","d","e","i",
          "r","a"," ","i","n"," ","M","a","d","e","i","r","a">>],
    [key |-> <<"c","o","n","s","e","r","v","a","t","i","o","n","-","o","f","-","z","i","n","o","s",
          "-","p","e","t","r","e","l","-","p","t","e","r","o","d","r","o","m","a","-","m","a",
          "d","e","i","r","a","-","i","n","-","t","h","e","-","a","r","c","h","i","p","e","l",
          "a","g","o","-","o","f","-","m","a","d","e","i","r","a",".","p","d","f">>,
     name |-> <<"Z","i","n","o"," ","e","t"," ","a","l"," ","2","0","0","1"," ","-"," ","C","o","n",
          "s","e","r","v","a","t","i","o","n"," ","o","f"," ","Z","i","n","o","s"," ","p","e",
          "t","r","e","l"," ","P","t","e","r","o","d","r","o","m","a"," ","m","a","d","e","i",
          "r","a"," ","i","n"," ","M","a","d","e","i","r","a">>],
    [key |-> <<"M","a","d","e","i","r","a","_","Z","i","n","o","s","_","P","e","t","r","e","l","_",
          "2","0","1","0","_","0",".","p","d","f">>,
     name |-> <<"B","i","r","d","L","i","f","e"," ","I","n","t","e","r","n","a","t","i","o","n","a",
          "l"," ","2","0","1","0"," ","-"," ","R","a","c","e"," ","a","g","a","i","n","s","t",
          " ","t","h","e"," ","c","l","o","c","k"," ","t","o"," ","s","a","v","e"," ","Z","i",
          "n","o","s"," ","P","e","t","r","e","l">>],
    [key |-> <<"M","a","d","e","i","r","a","-","2","0","2","1",".","p","d","f">>,
     name |-> <<"F","l","o","o","d"," ","2","0","2","1"," ","-"," ","O","R","I","O","L","E"," ","B",
          "I","R","D","I","N","G"," ","T","O","U","R"," ","T","O"," ","M","A","D","E","I","R",
          "A"," ","E","N","D","E","M","I","C","S"," ","A","N","D"," ","S","E","A","B","I","R",
          "D","S"," ","5","-","9"," ","J","U","L","Y"," ","2","0","2","1">>],
    [key |-> <<"m","a","d","e","i","r","a","-","2","0","2","4","-","t","e","x","t",".","p","d","f">>,
     name |-> <<"K","o","p","p","e","n","o","l"," ","2","0","2","4"," ","-"," ","M","A","D","E","I",
          "R","A"," ","T","O","U","R"," ","R","E","P","O","R","T"," ","2","0","2","4">>],
    [key |-> <<"M","a","d","e","i","r","a","2","0","0","4","_","N","B",".","p","d","f">>,
     name |-> <<"B","r","i","n","k","l","e","y"," ","2","0","0","4"," ","-"," ","Z","i","n","o","s",
          " ","P","e","t","r","e","l"," ","a","t"," ","s","e","a"," ","o","f","f"," ","M","a",
          "d","e","i","r","a"," ","2","7"," ","A","p","r","i","l"," ","2","0","0","4">>],
    [key |-> <<"p","t","e","r","o","d","r","o","m","a","R","e","f","s","_","v","1",".","1","5",".",
          "p","d","f">>,
     name |-> <<"H","o","b","b","s"," ","2","0","1","7"," ","-"," ","P","t","e","r","o","d","r","o",
          "m","a"," ","R","e","f","e","r","e","n","c","e"," ","L","i","s","t"," ","-"," ","C",
          "o","m","p","r","e","h","e","n","s","i","v","e"," ","b","i","b","l","i","o","g","r",
          "a","p","h","y"," ","o","f"," ","g","a","d","f","l","y"," ","p","e","t","r","e","l",
          "s">>],
    [key |-> <<"S","h","i","r","i","h","a","i","_","J","a","m","a","i","c","a","_","A","t","S","e",
          "a","_","N","o","v","0","9",".","p","d","f">>,
     name |-> <<"S","h","i","r","i","h","a","i"," ","e","t"," ","a","l"," ","2","0","1","0"," ","-",
          " ","J","a","m","a","i","c","a"," ","P","e","t","r","e","l"," ","P","t","e","r","o",
          "d","r","o","m","a"," ","c","a","r","i","b","b","a","e","a"," ","P","e","l","a","g",
          "i","c"," ","e","x","p","e","d","i","t","i","o","n"," ","r","e","p","o","r","t">>],
    [key |-> <<"s","r","e","p","2","3","4","4","7",".","p","d","f">>,
     name |-> <<"R","a","m","o","s"," ","e","t"," ","a","l"," ","2","0","1","6"," ","-"," ","G","l",
          "o","b","a","l"," ","s","p","a","t","i","a","l"," ","e","c","o","l","o","g","y"," ",
          "o","f"," ","t","h","r","e","e"," ","c","l","o","s","e","l","y"," ","r","e","l","a",
          "t","e","d"," ","g","a","d","f","l","y"," ","p","e","t","r","e","l","s">>],
    [key |-> <<"T","h","e","_","s","e","p","a","r","a","t","i","o","n","_","o","f","_","P","t","e",
          "r","o","d","r","o","m","a","_","m","a","d","e","i","r","a","_","Z","i","n",".","p",
          "d","f">>,
     name |-> <<"Z","i","n","o"," ","e","t"," ","a","l"," ","2","0","0","8"," ","-"," ","T","h","e",
          " ","s","e","p","a","r","a","t","i","o","n"," ","o","f"," ","P","t","e","r","o","d",
          "r","o","m","a"," ","m","a","d","e","i","r","a"," ","f","r","o","m"," ","P","t","e",
          "r","o","d","r","o","m","a"," ","f","e","a","e">>],
    [key |-> <<"v","3","6","n","6","p","5","8","6",".","p","d","f">>,
     name |-> <<"P","a","t","t","e","s","o","n"," ","&"," ","B","r","i","n","k","l","e","y"," ","2",
          "0","0","4"," ","-"," ","A"," ","P","e","t","r","e","l"," ","P","r","i","m","e","r",
          " ","-"," ","T","h","e"," ","G","a","d","f","l","i","e","s"," ","o","f"," ","N","o",
          "r","t","h"," ","C","a","r","o","l","i","n","a">>],
    [key |-> <<"v","4","0","n","6","p","2","8",".","p","d","f">>,
     name |-> <<"H","e","s","s"," ","2","0","0","8"," ","-"," ","F","e","a","s"," ","o","r"," ","Z",
          "i","n","o","s"," ","P","e","t","r","e","l">>],
    [key |-> <<"Z","i","n","o","_","s","_","P","e","t","r","e","l","_","P","t","e","r","o","d","r",
          "o","m","a","_","m","a","d","e","i","r","a","_","o","f","f","_","N","o","r",".","p",
          "d","f">>,
     name |-> <<"P","a","t","t","e","s","o","n"," ","e","t"," ","a","l"," ","2","0","1","3"," ","-",
          " ","Z","i","n","o","s"," ","P","e","t","r","e","l"," ","P","t","e","r","o","d","r",
          "o","m","a"," ","m","a","d","e","i","r","a"," ","o","f","f"," ","N","o","r","t","h",
          " ","C","a","r","o","l","i","n","a"," ","-"," ","F","i","r","s","t"," ","f","o","r",
          " ","N","o","r","t","h"," ","A","m","e","r","i","c","a">>],
    [key |-> <<"z","i","n","o","s","-","p","e","t","r","e","l","-","1","9","9","5",".","p","d","f">>,
     name |-> <<"Z","i","n","o"," ","e","t"," ","a","l"," ","1","9","9","5"," ","-"," ","A","c","t",
          "i","o","n"," ","P","l","a","n"," ","f","o","r"," ","Z","i","n","o","s"," ","P","e",
          "t","r","e","l"," ","P","t","e","r","o","d","r","o","m","a"," ","m","a","d","e","i",
          "r","a">>],
    [key |-> <<"z","l","a","e","1","2","3",".","p","d","f">>,
     name |-> <<"R","a","n","d","o"," ","e","t"," ","a","l"," ","2","0","2","4"," ","-"," ","P","t",
          "e","r","o","d","r","o","m","a"," ","z","i","n","o","r","u","m"," ","B","i","o","g",
          "r","a","p","h","y"," ","o","f"," ","a","n"," ","e","x","t","i","n","c","t"," ","A",
          "z","o","r","e","a","n"," ","p","e","t","r","e","l">>],
    [key |-> <<"u","n","k","n","o","w","n">>,
     name |-> <<"U","n","k","n","o","w","n"," ","D","o","c","u","m","e","n","t">>]
>>

\* doc.metadata of each document; a key may be missing.
Metadata == <<
    [source_file |-> <<"d","o","c","s","/","z","l","a","e","1","2","3",".","p","d","f">>, page |-> <<"3">>],
    [source_file |-> <<"3","9","0","6","_","p","t","e","r","o","d","r","o","m","a","_","m","a","d","e","i","r","a",".","p","d","f">>, page |-> <<"1">>],
    [source_file |-> <<"v","4","0","n","6","p","2","8",".","p","d","f">>, page |-> <<"2">>],
    [source_file |-> <<"k","b","/","M","a","d","e","i","r","a","-","2","0","2","1",".","p","d","f">>, page |-> <<"4","0">>],
    [source_file |-> <<"s","r","e","p","2","3","4","4","7",".","p","d","f">>],
    [source_file |-> <<"m","y","_","n","o","t","e","s","-","2","0","2","0",".","p","d","f">>],
    [source_file |-> <<>>, page |-> <<"1">>],
    [source_file |-> <<"k","b","/","z","i","n","o","s","-","p","e","t","r","e","l","-","1","9","9","5",".","p","d","f">>, page |-> <<"1","2">>],
    [source_file |-> <<"k","b","/","z","i","n","o","s","-","p","e","t","r","e","l","-","1","9","9","5",".","p","d","f">>, page |-> <<"1","2">>],
    [page |-> <<"7">>]
>>

\* The citation a run of get_friendly_filename gives each document, recorded
\* here and used in the claims only: the friendly name, the page, the label.
Citations == <<
    [name |-> <<"R","a","n","d","o"," ","e","t"," ","a","l"," ","2","0","2","4"," ","-"," ","P","t",
          "e","r","o","d","r","o","m","a"," ","z","i","n","o","r","u","m"," ","B","i","o","g",
          "r","a","p","h","y"," ","o","f"," ","a","n"," ","e","x","t","i","n","c","t"," ","A",
          "z","o","r","e","a","n"," ","p","e","t","r","e","l">>,
     page |-> <<"3">>,
     label |-> <<"R","a","n","d","o"," ","e","t"," ","a","l"," ","2","0","2","4"," ","-"," ","P","t",
          "e","r","o","d","r","o","m","a"," ","z","i","n","o","r","u","m"," ","B","i","o","g",
          "r","a","p","h","y"," ","o","f"," ","a","n"," ","e","x","t","i","n","c","t"," ","A",
          "z","o","r","e","a","n"," ","p","e","t","r","e","l"," ","(","p",".","3",")">>],
    [name |-> <<"B","i","r","d","L","i","f","e"," ","I","n","t","e","r","n","a","t","i","o","n","a",
          "l"," ","2","0","2","1"," ","-"," ","P","t","e","r","o","d","r","o","m","a"," ","m",
          "a","d","e","i","r","a"," ","Z","i","n","o","s"," ","P","e","t","r","e","l">>,
     page |-> <<"1">>,
     label |-> <<"B","i","r","d","L","i","f","e"," ","I","n","t","e","r","n","a","t","i","o","n","a",
          "l"," ","2","0","2","1"," ","-"," ","P","t","e","r","o","d","r","o","m","a"," ","m",
          "a","d","e","i","r","a"," ","Z","i","n","o","s"," ","P","e","t","r","e","l"," ","(",
          "p",".","1",")">>],
    [name |-> <<"H","e","s","s"," ","2","0","0","8"," ","-"," ","F","e","a","s"," ","o","r"," ","Z",
          "i","n","o","s"," ","P","e","t","r","e","l">>,
     page |-> <<"2">>,
     label |-> <<"H","e","s","s"," ","2","0","0","8"," ","-"," ","F","e","a","s"," ","o","r"," ","Z",
          "i","n","o","s"," ","P","e","t","r","e","l"," ","(","p",".","2",")">>],
    [name |-> <<"F","l","o","o","d"," ","2","0","2","1"," ","-"," ","O","R","I","O","L","E"," ","B",
          "I","R","D","I","N","G"," ","T","O","U","R"," ","T","O"," ","M","A","D","E","I","R",
          "A"," ","E","N","D","E","M","I","C","S"," ","A","N","D"," ","S","E","A","B","I","R",
          "D","S"," ","5","-","9"," ","J","U","L","Y"," ","2","0","2","1">>,
     page |-> <<"4","0">>,
     label |-> <<"F","l","o","o","d"," ","2","0","2","1"," ","-"," ","O","R","I","O","L","E"," ","B",
          "I","R","D","I","N","G"," ","T","O","U","R"," ","T","O"," ","M","A","D","E","I","R",
          "A"," ","E","N","D","E","M","I","C","S"," ","A","N","D"," ","S","E","A","B","I","R",
          "D","S"," ","5","-","9"," ","J","U","L","Y"," ","2","0","2","1"," ","(","p",".","4",
          "0",")">>],
    [name |-> <<"R","a","m","o","s"," ","e","t"," ","a","l"," ","2","0","1","6"," ","-"," ","G","l",
          "o","b","a","l"," ","s","p","a","t","i","a","l"," ","e","c","o","l","o","g","y"," ",
          "o","f"," ","t","h","r","e","e"," ","c","l","o","s","e","l","y"," ","r","e","l","a",
          "t","e","d"," ","g","a","d","f","l","y"," ","p","e","t","r","e","l","s">>,
     page |-> <<"N","/","A">>,
     label |-> <<"R","a","m","o","s"," ","e","t"," ","a","l"," ","2","0","1","6"," ","-"," ","G","l",
          "o","b","a","l"," ","s","p","a","t","i","a","l"," ","e","c","o","l","o","g","y"," ",
          "o","f"," ","t","h","r","e","e"," ","c","l","o","s","e","l","y"," ","r","e","l","a",
          "t","e","d"," ","g","a","d","f","l","y"," ","p","e","t","r","e","l","s"," ","(","p",
          ".","N","/","A",")">>],
    [name |-> <<"M","y"," ","N","o","t","e","s"," ","2","0","2","0",".","P","d","f">>,
     page |-> <<"N","/","A">>,
     label |-> <<"M","y"," ","N","o","t","e","s"," ","2","0","2","0",".","P","d","f"," ","(","p",".",
          "N","/","A",")">>],
    [name |-> <<"U","n","k","n","o","w","n"," ","D","o","c","u","m","e","n","t">>,
     page |-> <<"1">>,
     label |-> <<"U","n","k","n","o","w","n"," ","D","o","c","u","m","e","n","t"," ","(","p",".","1",
          ")">>],
    [name |-> <<"Z","i","n","o"," ","e","t"," ","a","l"," ","1","9","9","5"," ","-"," ","A","c","t",
          "i","o","n"," ","P","l","a","n"," ","f","o","r"," ","Z","i","n","o","s"," ","P","e",
          "t","r","e","l"," ","P","t","e","r","o","d","r","o","m","a"," ","m","a","d","e","i",
          "r","a">>,
     page |-> <<"1","2">>,
     label |-> <<"Z","i","n","o"," ","e","t"," ","a","l"," ","1","9","9","5"," ","-"," ","A","c","t",
          "i","o","n"," ","P","l","a","n"," ","f","o","r"," ","Z","i","n","o","s"," ","P","e",
          "t","r","e","l"," ","P","t","e","r","o","d","r","o","m","a"," ","m","a","d","e","i",
          "r","a"," ","(","p",".","1","2",")">>],
    [name |-> <<"Z","i","n","o"," ","e","t"," ","a","l"," ","1","9","9","5"," ","-"," ","A","c","t",
          "i","o","n"," ","P","l","a","n"," ","f","o","r"," ","Z","i","n","o","s"," ","P","e",
          "t","r","e","l"," ","P","t","e","r","o","d","r","o","m","a"," ","m","a","d","e","i",
          "r","a">>,
     page |-> <<"1","2">>,
     label |-> <<"Z","i","n","o"," ","e","t"," ","a","l"," ","1","9","9","5"," ","-"," ","A","c","t",
          "i","o","n"," ","P","l","a","n"," ","f","o","r"," ","Z","i","n","o","s"," ","P","e",
          "t","r","e","l"," ","P","t","e","r","o","d","r","o","m","a"," ","m","a","d","e","i",
          "r","a"," ","(","p",".","1","2",")">>],
    [name |-> <<"U","n","k","n","o","w","n">>,
     page |-> <<"7">>,
     label |-> <<"U","n","k","n","o","w","n"," ","(","p",".","7",")">>]
>>

\* str.replace(a, b) for single characters.
replace(s, a, b) == [i \in 1..Len(s) |-> IF s[i] = a THEN b ELSE s[i]]

upper_char(c) ==
    IF \E i \in 1..Len(LowerCase) : LowerCase[i] = c
    THEN UpperCase[CHOOSE i \in 1..Len(LowerCase) : LowerCase[i] = c]
    ELSE c

IsLetter(c) == upper_char(c) # c \/ lower_char(c) # c

\* str.title(): a letter is upper-cased after a character that is no letter
\* and at the start, and lower-cased after a letter.
title(s) ==
    [i \in 1..Len(s) |->
        IF i = 1 \/ ~IsLetter(s[i - 1]) THEN upper_char(s[i]) ELSE lower_char(s[i])]

\* os.path.basename.
basename(path) ==
    LET slashes == {i \in 1..Len(path) : path[i] = "/"}
    IN  IF slashes = {} THEN path
        ELSE SubSeq(path, (CHOOSE i \in slashes : \A j \in slashes : j <= i) + 1, Len(path))

\* Variant of get_friendly_filename that looks the whole path up.
get_friendly_filename_no_basename(source_file) ==
    LET base_name == IF source_file # <<>> THEN source_file
                     ELSE <<"u","n","k","n","o","w","n">>
        found == {i \in 1..Len(filename_mapping) : filename_mapping[i].key = base_name}
    IN  IF found # {} THEN filename_mapping[CHOOSE i \in found : TRUE].name
        ELSE title(replace(replace(base_name, "_", " "), "-", " "))

\* get_friendly_filename (lines 12-42).
get_friendly_filename(source_file) ==
    LET base_name == IF source_file # <<>> THEN basename(source_file)
                     ELSE <<"u","n","k","n","o","w","n">>
        found == {i \in 1..Len(filename_mapping) : filename_mapping[i].key = base_name}
    IN  IF found # {} THEN filename_mapping[CHOOSE i \in found : TRUE].name
        ELSE title(replace(replace(base_name, "_", " "), "-", " "))

\* Lines 64-67 and 138-140: source, page and friendly_name of a document.
source_of(d) == get(Metadata[d], "source_file", Unknown)
page_of(d) == get(Metadata[d], "page", <<"N","/","A">>)
friendly_name(d) == get_friendly_filename(source_of(d))

\* Lines 70, 143 and 145: f"{friendly_name} (p.{page})".
citation_label(d) == friendly_name(d) \o <<" ","(","p",".">> \o page_of(d) \o <<")">>

\* The labels, tabulated for each document.
labels == [d \in DocIds |-> citation_label(d)]
names == [d \in DocIds |-> friendly_name(d)]

\* Variant that uses every retrieved document.
selected_all(ds) == ds

\* Line 62: retrieved_docs[:3].
selected(ds) == SubSeq(ds, 1, Min(DocLimit, Len(ds)))

\* Variant that embeds the whole content.
embedded_whole(d) == page_content(d)

\* Line 63: doc.page_content[:500].
embedded(d) == prefix(page_content(d), ContentLimit)

\* Line 69: f"[Source {i}: {friendly_name}, Page {page}]\n{content}".
doc_content(i, d) ==
    [index |-> i, name |-> names[d], page |-> page_of(d), content |-> embedded(d)]

\* Lines 59-72: doc_contents, joined in order.
combined_docs(ds) == [i \in 1..Len(selected(ds)) |-> doc_content(i, selected(ds)[i])]

\* Variant that lists the labels in reverse.
sources_reversed(ds) ==
    [i \in 1..Len(selected(ds)) |-> labels[selected(ds)[Len(selected(ds)) + 1 - i]]]

\* Lines 60-70: sources.
sources(ds) == [i \in 1..Len(selected(ds)) |-> labels[selected(ds)[i]]]

\* Lines 75-113: the prompt, in the template of the language.
build_prompt(q, ds, answer, lang) ==
    [kind |-> "prompt",
     template |-> IF lang = "Portuguese" THEN "Portuguese" ELSE "English",
     question |-> q,
     ai_answer |-> answer,
     combined_docs |-> combined_docs(ds)]

Whitespace == {" ", "\n", "\t"}

\* str.strip().
strip(s) ==
    LET inked == {i \in 1..Len(s) : s[i] \notin Whitespace}
    IN  IF inked = {} THEN <<>>
        ELSE SubSeq(s, CHOOSE i \in inked : \A j \in inked : i <= j,
                       CHOOSE i \in inked : \A j \in inked : j <= i)

\* Lines 127-133: the summary with its sources.
with_sources(summary, ds, lang) ==
    [kind |-> "summary",
     text |-> strip(summary),
     heading |-> IF lang = "Portuguese" THEN "U+1F4DA **Fontes:**" ELSE "U+1F4DA **Sources:**",
     sources |-> sources(ds)]

\* Variant of the excerpt that takes the last selected document.
excerpt_of_last(ds, lang) ==
    LET d == selected(ds)[Len(selected(ds))]
    IN  [kind |-> "excerpt",
         heading |-> IF lang = "Portuguese" THEN "U+1F4C4 Informacao extraida dos documentos:"
                     ELSE "U+1F4C4 Information from documents:",
         text |-> prefix(page_content(d), ExcerptLimit) \o <<".",".",".">>,
         source_heading |-> IF lang = "Portuguese" THEN "U+1F4DA Fonte:" ELSE "U+1F4DA Source:",
         source |-> labels[d]]

\* Lines 138-145: the excerpt of retrieved_docs[0].
excerpt(ds, lang) ==
    LET d == ds[1]
    IN  [kind |-> "excerpt",
         heading |-> IF lang = "Portuguese" THEN "U+1F4C4 Informacao extraida dos documentos:"
                     ELSE "U+1F4C4 Information from documents:",
         text |-> prefix(page_content(d), ExcerptLimit) \o <<".",".",".">>,
         source_heading |-> IF lang = "Portuguese" THEN "U+1F4DA Fonte:" ELSE "U+1F4DA Source:",
         source |-> labels[d]]

\* Variant of the handler that calls the service once more before it falls
\* back.
summarize_except_retrying(ds, lang, calls) ==
    IF Len(ds) = 0
    THEN [out |-> [kind |-> "raised", exc |-> "IndexError"], calls |-> calls + 1]
    ELSE [out |-> excerpt(ds, lang), calls |-> calls + 1]

\* Lines 135-145: the except block.  retrieved_docs[0] raises IndexError on an
\* empty list, inside the handler, so nothing catches it.
summarize_except(ds, lang, calls) ==
    IF Len(ds) = 0
    THEN [out |-> [kind |-> "raised", exc |-> "IndexError"], calls |-> calls]
    ELSE [out |-> excerpt(ds, lang), calls |-> calls]

\* What llm.invoke may return.
Summaries == {
    <<" ","\n","N","e","s","t","s"," ","o","n"," ","c","l","i","f","f","s",".","\n"," ">>,
    <<"E","n","d","a","n","g","e","r","e","d",".">>
}

AiAnswers == {"It nests on cliffs."}

\* The documents a summarized request may hold.
SummaryDocs == {6, 7, 8, 9, 10}
SummarySeqs == SeqsUpTo(SummaryDocs, MaxSummarized)

InitSummarize ==
    /\ RegistryIdle
    /\ ReaskIdle
    /\ NameIdle
    /\ TtsIdle
    /\ VsIdle
    /\ ReqIdle
    /\ RetrieveIdle
    /\ fpc = "summarize"
    /\ question \in Questions
    /\ retrieved_docs \in SummarySeqs
    /\ other_docs = <<>>
    /\ optimized_query = ""
    /\ other_query = ""
    /\ raw_results = <<>>
    /\ results = <<>>
    /\ use_web_search = FALSE
    /\ provider = ""
    /\ tavily_key = ""
    /\ language \in Languages
    /\ ddg_call = "none"
    /\ tavily_call = "none"
    /\ response = [kind |-> "none"]
    /\ web_result = [kind |-> "none"]
    /\ ai_answer \in AiAnswers
    /\ prompt = [kind |-> "none"]
    /\ llmCalls = 0
    /\ llm_result = [kind |-> "none"]
    /\ kb_summary = [kind |-> "none"]
    /\ content = [kind |-> "none"]
    /\ request_docs = <<>>
    /\ received = <<>>

\* Lines 58-113: the documents, the sources and the prompt.
summarize_prepare ==
    /\ fpc = "summarize"
    /\ prompt' = build_prompt(question, retrieved_docs, ai_answer, language)
    /\ fpc' = "llm"
    /\ UNCHANGED <<question, retrieved_docs, other_docs, optimized_query, other_query,
                   raw_results, results, webVars, ai_answer, llmCalls, llm_result,
                   kb_summary, content, request_docs, received>>

\* Lines 116-145: the completion, and the handler if it fails.
summarize_invoke ==
    /\ fpc = "llm"
    /\ \/ \* Tongyi(...) raises (line 118)
          LET r == summarize_except(retrieved_docs, language, llmCalls)
          IN  /\ llm_result' = [kind |-> "raised", by |-> "Tongyi"]
              /\ llmCalls' = r.calls
              /\ kb_summary' = r.out
              /\ fpc' = IF r.out.kind = "raised" THEN "kb_raised" ELSE "kb_done"
       \/ \* llm.invoke(prompt) raises (line 124)
          LET r == summarize_except(retrieved_docs, language, llmCalls + 1)
          IN  /\ llm_result' = [kind |-> "raised", by |-> "invoke"]
              /\ llmCalls' = r.calls
              /\ kb_summary' = r.out
              /\ fpc' = IF r.out.kind = "raised" THEN "kb_raised" ELSE "kb_done"
       \/ \E summary \in Summaries :
              /\ llm_result' = [kind |-> "str", text |-> summary]
              /\ llmCalls' = llmCalls + 1
              /\ kb_summary' = with_sources(summary, retrieved_docs, language)
              /\ fpc' = "kb_done"
    /\ UNCHANGED <<question, retrieved_docs, other_docs, optimized_query, other_query,
                   raw_results, results, webVars, ai_answer, prompt, content,
                   request_docs, received>>

NextSummarize ==
    /\ \/ summarize_prepare
       \/ summarize_invoke
    /\ UNCHANGED <<regVars, retVars, moreVars>>

SpecSummarize == InitSummarize /\ [][NextSummarize]_vars

(***************************************************************************)
(* Claims about summarize_fact_check (checked under SpecSummarize).        *)
(***************************************************************************)

\* The first 500 and the first 200 characters of each document's content,
\* written out for the long documents and used in the claims only.
FirstFiveHundred(d) ==
    IF d \in {8, 9} THEN [i \in 1..500 |-> "a"] ELSE page_content(d)
FirstTwoHundred(d) ==
    IF d \in {8, 9} THEN [i \in 1..200 |-> "a"]
    ELSE IF d = 10 THEN [i \in 1..200 |-> "x"]
    ELSE page_content(d)

\* The number of documents a summary uses: min(3, n).
Used == IF Len(retrieved_docs) < 3 THEN Len(retrieved_docs) ELSE 3

\* C24: the prompt holds the first min(3, n) documents in order, each with its
\* citation and the first 500 characters of its content, and nothing of a
\* document at position 4 or later.
C24_FirstThreeTruncated ==
    prompt.kind = "prompt" =>
        /\ Len(prompt.combined_docs) = Used
        /\ \A i \in 1..Used :
              /\ prompt.combined_docs[i].index = i
              /\ prompt.combined_docs[i].name = Citations[retrieved_docs[i]].name
              /\ prompt.combined_docs[i].page = Citations[retrieved_docs[i]].page
              /\ prompt.combined_docs[i].content = FirstFiveHundred(retrieved_docs[i])
              /\ Len(prompt.combined_docs[i].content) <= 500

\* C24 witness: four documents were retrieved, the first one longer than 500
\* characters, the fourth one different from the first three.
C24_Witness ==
    /\ prompt.kind = "prompt"
    /\ Len(retrieved_docs) = 4
    /\ Len(page_content(retrieved_docs[1])) > 500
    /\ \A i \in 1..3 : retrieved_docs[i] # retrieved_docs[4]

\* C25: after a successful completion the output is the stripped summary
\* followed by the Sources heading of the language and the labels of the
\* first min(3, n) documents, one each, in order.
C25_SourcesFooter ==
    (fpc = "kb_done" /\ llm_result.kind = "str") =>
        /\ kb_summary.kind = "summary"
        /\ kb_summary.heading =
              (IF language = "Portuguese" THEN "U+1F4DA **Fontes:**" ELSE "U+1F4DA **Sources:**")
        /\ Len(kb_summary.sources) = Used
        /\ \A i \in 1..Used : kb_summary.sources[i] = Citations[retrieved_docs[i]].label

\* C25 witness: a Portuguese request with four documents whose first three
\* have three different labels was summarized.
C25_Witness ==
    /\ fpc = "kb_done"
    /\ llm_result.kind = "str"
    /\ language = "Portuguese"
    /\ Len(retrieved_docs) = 4
    /\ Cardinality({kb_summary.sources[i] : i \in 1..Len(kb_summary.sources)}) = 3

\* C26: after a failed completion, with a first document, the output is the
\* excerpt of that document alone: its first 200 characters, "...", and its
\* label, under the headings of the language.
C26_FallbackExcerpt ==
    (fpc = "kb_done" /\ llm_result.kind = "raised") =>
        /\ kb_summary.kind = "excerpt"
        /\ kb_summary.text = FirstTwoHundred(retrieved_docs[1]) \o <<".",".",".">>
        /\ kb_summary.source = Citations[retrieved_docs[1]].label
        /\ kb_summary.heading =
              (IF language = "Portuguese" THEN "U+1F4C4 Informacao extraida dos documentos:"
               ELSE "U+1F4C4 Information from documents:")
        /\ kb_summary.source_heading =
              (IF language = "Portuguese" THEN "U+1F4DA Fonte:" ELSE "U+1F4DA Source:")

\* C26 witness: the completion failed for a Portuguese request whose first
\* document is longer than 200 characters and whose second document is
\* another one with another label.
C26_Witness ==
    /\ fpc = "kb_done"
    /\ llm_result.kind = "raised"
    /\ language = "Portuguese"
    /\ Len(retrieved_docs) >= 2
    /\ Len(page_content(retrieved_docs[1])) > 200
    /\ Citations[retrieved_docs[2]].label # Citations[retrieved_docs[1]].label

\* C27: a failed completion never leaves summarize_fact_check as an error,
\* whatever the retrieved documents: it ends in the excerpt.
C27_FailureNeverPropagates ==
    llm_result.kind = "raised" => (fpc = "kb_done" /\ kb_summary.kind = "excerpt")

\* C28: a call invokes the completion service at most once, also when the
\* completion fails and the fallback is produced.
C28_AtMostOneCompletion ==
    /\ llmCalls <= 1
    /\ (fpc = "kb_done" /\ llm_result.kind = "str") => llmCalls = 1

\* C28 witness: llm.invoke raised, the excerpt was returned, and the service
\* had been invoked once.
C28_Witness ==
    /\ fpc = "kb_done"
    /\ llm_result = [kind |-> "raised", by |-> "invoke"]
    /\ kb_summary.kind = "excerpt"
    /\ llmCalls = 1

(***************************************************************************)
(* fact_check_utils.py: generate_fact_check_content.                       *)
(***************************************************************************)

\* The documents the retrieval stage may hand to a request.
GenerateDocs == {<<>>, <<10, 7>>, <<8, 6, 7, 9>>}

\* Line 364: the documents passed to summarize_fact_check.
summarize_docs_argument(ds) == ds

\* Variant of the call that leaves retrieved_docs at its default, None.
web_docs_argument_default(ds) == <<>>

\* Line 369: the documents passed to web_search_supplement.
web_docs_argument(ds) == ds

\* Lines 374-377: the header.
header(lang) ==
    IF lang = "Portuguese"
    THEN "U+1F4CB **Verificacao de Factos Baseada em Conhecimento Cientifico**"
    ELSE "U+1F4CB **Fact-Check Based on Scientific Knowledge**"

\* `if web_summary:`: a string that is not empty.
truthy(web) == web.kind = "str"

\* Variant of the composition that always appends the web section.
compose_always_web(lang, kb, web) ==
    [kind |-> "content", parts |-> <<header(lang), kb, "---", web>>]

\* Lines 374-384: header + kb_summary, then the separator and the web summary.
compose(lang, kb, web) ==
    [kind |-> "content",
     parts |-> IF truthy(web) THEN <<header(lang), kb, "---", web>>
               ELSE <<header(lang), kb>>]

InitGenerate ==
    /\ RegistryIdle
    /\ ReaskIdle
    /\ NameIdle
    /\ TtsIdle
    /\ VsIdle
    /\ ReqIdle
    /\ RetrieveIdle
    /\ fpc = "generate"
    /\ question \in Questions
    /\ request_docs \in GenerateDocs
    /\ retrieved_docs = <<>>
    /\ received = <<>>
    /\ other_docs = <<>>
    /\ optimized_query = ""
    /\ other_query = ""
    /\ raw_results = <<>>
    /\ results = <<>>
    /\ use_web_search \in UseWebSearch
    /\ provider \in Providers
    /\ tavily_key \in TavilyKeys
    /\ language \in Languages
    /\ ddg_call = "none"
    /\ tavily_call = "none"
    /\ response = [kind |-> "none"]
    /\ web_result = [kind |-> "none"]
    /\ ai_answer \in AiAnswers
    /\ prompt = [kind |-> "none"]
    /\ llmCalls = 0
    /\ llm_result = [kind |-> "none"]
    /\ kb_summary = [kind |-> "none"]
    /\ content = [kind |-> "none"]

\* Line 364: the call of summarize_fact_check.
generate_call_summarize ==
    /\ fpc = "generate"
    /\ retrieved_docs' = summarize_docs_argument(request_docs)
    /\ received' = Append(received, [callee |-> "summarize_fact_check", docs |-> retrieved_docs'])
    /\ fpc' = "summarize"
    /\ UNCHANGED <<question, other_docs, optimized_query, other_query, raw_results, results,
                   webVars, ai_answer, prompt, llmCalls, llm_result, kb_summary, content,
                   request_docs>>

\* Lines 367-371: the call of web_search_supplement, once summarize_fact_check
\* has returned.
generate_call_web ==
    /\ fpc = "kb_done"
    /\ retrieved_docs' = web_docs_argument(request_docs)
    /\ received' = Append(received, [callee |-> "web_search_supplement", docs |-> retrieved_docs'])
    /\ fpc' = "web"
    /\ UNCHANGED <<question, other_docs, optimized_query, other_query, raw_results, results,
                   webVars, ai_answer, prompt, llmCalls, llm_result, kb_summary, content,
                   request_docs>>

\* Lines 373-384: the composition, once web_search_supplement has returned.
generate_compose ==
    /\ fpc = "returned"
    /\ content' = compose(language, kb_summary, web_result)
    /\ fpc' = "composed"
    /\ UNCHANGED <<question, retrieved_docs, other_docs, optimized_query, other_query,
                   raw_results, results, webVars, ai_answer, prompt, llmCalls, llm_result,
                   kb_summary, request_docs, received>>

NextGenerate ==
    /\ \/ generate_call_summarize
       \/ summarize_prepare
       \/ summarize_invoke
       \/ generate_call_web
       \/ web_search_begin
       \/ web_search_duckduckgo
       \/ web_search_tavily
       \/ generate_compose
    /\ UNCHANGED <<regVars, retVars, moreVars>>

SpecGenerate == InitGenerate /\ [][NextGenerate]_vars

(***************************************************************************)
(* Claims about generate_fact_check_content (checked under SpecGenerate).  *)
(***************************************************************************)

\* C29: the composed output is the header of the language, then the KB
\* summary, then the separator and the web summary exactly when a web summary
\* was returned; with None there is neither separator nor web section.
C29_ComposedOutput ==
    fpc = "composed" =>
        /\ content.kind = "content"
        /\ content.parts[1] =
              (IF language = "Portuguese"
               THEN "U+1F4CB **Verificacao de Factos Baseada em Conhecimento Cientifico**"
               ELSE "U+1F4CB **Fact-Check Based on Scientific Knowledge**")
        /\ content.parts[2] = kb_summary
        /\ web_result = ReturnNone => Len(content.parts) = 2
        /\ web_result # ReturnNone =>
              (Len(content.parts) = 4 /\ content.parts[3] = "---" /\ content.parts[4] = web_result)

\* C29 witness: a request was composed while the search was switched on and
\* the gateway returned None after both providers were asked.
C29_Witness ==
    /\ fpc = "composed"
    /\ use_web_search
    /\ ddg_call = "answered"
    /\ tavily_call = "answered"
    /\ web_result = ReturnNone
    /\ Len(content.parts) = 2

\* C30: when the output is composed, both sub-calls have returned, first the
\* KB summary and then the web search, and each was called once with the
\* documents of the request.
C30_JoinBeforeCompose ==
    content.kind = "content" =>
        /\ kb_summary.kind \in {"summary", "excerpt"}
        /\ web_result.kind \in {"None", "str"}
        /\ received = <<[callee |-> "summarize_fact_check", docs |-> request_docs],
                        [callee |-> "web_search_supplement", docs |-> request_docs]>>

\* C30 witness: a request with documents was composed from a summary and a
\* web summary that DuckDuckGo answered with the query optimized from them.
C30_Witness ==
    /\ fpc = "composed"
    /\ Len(request_docs) >= 2
    /\ kb_summary.kind = "summary"
    /\ web_result.kind = "str"
    /\ ddg_call = "answered"
    /\ optimized_query = optimize_search_query(question, request_docs)

(***************************************************************************)
(* Further claims about retrieve (checked under SpecRetrieve).             *)
(***************************************************************************)

\* C34: with a relevance threshold, every document retrieve returns is one of
\* the documents the MMR search of that call selected.
C34_FilteredFromMmrResult ==
    (rpc = "done" /\ thresholdArg # None) => Range(result) \subseteq Range(docs)

(***************************************************************************)
(* Further claims about optimize_search_query (checked under SpecOptimize).*)
(***************************************************************************)

SourceFiles == <<
    <<>>,
    <<"4","1","_","S","_","1","-","4","3",".","p","d","f">>,
    <<"k","b","/","4","1","_","S","_","1","-","4","3",".","p","d","f">>,
    <<"/","d","a","t","a","/","d","o","c","s","/","4","1","_","S","_","1","-","4","3",".",
     "p","d","f">>,
    <<"2","0","2","4","F","l","o","o","d","Z","i","n","o","s","1","s","t","B","r","i","t",
     "a","i","n",".","p","d","f">>,
    <<"k","b","/","2","0","2","4","F","l","o","o","d","Z","i","n","o","s","1","s","t","B",
     "r","i","t","a","i","n",".","p","d","f">>,
    <<"/","d","a","t","a","/","d","o","c","s","/","2","0","2","4","F","l","o","o","d","Z",
     "i","n","o","s","1","s","t","B","r","i","t","a","i","n",".","p","d","f">>,
    <<"3","9","0","6","_","p","t","e","r","o","d","r","o","m","a","_","m","a","d","e","i",
     "r","a",".","p","d","f">>,
    <<"k","b","/","3","9","0","6","_","p","t","e","r","o","d","r","o","m","a","_","m","a",
     "d","e","i","r","a",".","p","d","f">>,
    <<"/","d","a","t","a","/","d","o","c","s","/","3","9","0","6","_","p","t","e","r","o",
     "d","r","o","m","a","_","m","a","d","e","i","r","a",".","p","d","f">>,
    <<"C","o","n","s","e","r","v","a","t","i","o","n","_","o","f","_","Z","i","n","o","s",
     "_","p","e","t","r","e","l","_","P","t","e","r","o","d","r","o","m","a",".","p","d",
     "f">>,
    <<"k","b","/","C","o","n","s","e","r","v","a","t","i","o","n","_","o","f","_","Z","i",
     "n","o","s","_","p","e","t","r","e","l","_","P","t","e","r","o","d","r","o","m","a",
     ".","p","d","f">>,
    <<"/","d","a","t","a","/","d","o","c","s","/","C","o","n","s","e","r","v","a","t","i",
     "o","n","_","o","f","_","Z","i","n","o","s","_","p","e","t","r","e","l","_","P","t",
     "e","r","o","d","r","o","m","a",".","p","d","f">>,
    <<"c","o","n","s","e","r","v","a","t","i","o","n","-","o","f","-","z","i","n","o","s",
     "-","p","e","t","r","e","l","-","p","t","e","r","o","d","r","o","m","a","-","m","a",
     "d","e","i","r","a","-","i","n","-","t","h","e","-","a","r","c","h","i","p","e","l",
     "a","g","o","-","o","f","-","m","a","d","e","i","r","a",".","p","d","f">>,
    <<"k","b","/","c","o","n","s","e","r","v","a","t","i","o","n","-","o","f","-","z","i",
     "n","o","s","-","p","e","t","r","e","l","-","p","t","e","r","o","d","r","o","m","a",
     "-","m","a","d","e","i","r","a","-","i","n","-","t","h","e","-","a","r","c","h","i",
     "p","e","l","a","g","o","-","o","f","-","m","a","d","e","i","r","a",".","p","d","f">>,
    <<"/","d","a","t","a","/","d","o","c","s","/","c","o","n","s","e","r","v","a","t","i",
     "o","n","-","o","f","-","z","i","n","o","s","-","p","e","t","r","e","l","-","p","t",
     "e","r","o","d","r","o","m","a","-","m","a","d","e","i","r","a","-","i","n","-","t",
     "h","e","-","a","r","c","h","i","p","e","l","a","g","o","-","o","f","-","m","a","d",
     "e","i","r","a",".","p","d","f">>,
    <<"M","a","d","e","i","r","a","_","Z","i","n","o","s","_","P","e","t","r","e","l","_",
     "2","0","1","0","_","0",".","p","d","f">>,
    <<"k","b","/","M","a","d","e","i","r","a","_","Z","i","n","o","s","_","P","e","t","r",
     "e","l","_","2","0","1","0","_","0",".","p","d","f">>,
    <<"/","d","a","t","a","/","d","o","c","s","/","M","a","d","e","i","r","a","_","Z","i",
     "n","o","s","_","P","e","t","r","e","l","_","2","0","1","0","_","0",".","p","d","f">>,
    <<"M","a","d","e","i","r","a","-","2","0","2","1",".","p","d","f">>,
    <<"k","b","/","M","a","d","e","i","r","a","-","2","0","2","1",".","p","d","f">>,
    <<"/","d","a","t","a","/","d","o","c","s","/","M","a","d","e","i","r","a","-","2","0",
     "2","1",".","p","d","f">>,
    <<"m","a","d","e","i","r","a","-","2","0","2","4","-","t","e","x","t",".","p","d","f">>,
    <<"k","b","/","m","a","d","e","i","r","a","-","2","0","2","4","-","t","e","x","t",".",
     "p","d","f">>,
    <<"/","d","a","t","a","/","d","o","c","s","/","m","a","d","e","i","r","a","-","2","0",
     "2","4","-","t","e","x","t",".","p","d","f">>,
    <<"M","a","d","e","i","r","a","2","0","0","4","_","N","B",".","p","d","f">>,
    <<"k","b","/","M","a","d","e","i","r","a","2","0","0","4","_","N","B",".","p","d","f">>,
    <<"/","d","a","t","a","/","d","o","c","s","/","M","a","d","e","i","r","a","2","0","0",
     "4","_","N","B",".","p","d","f">>,
    <<"p","t","e","r","o","d","r","o","m","a","R","e","f","s","_","v","1",".","1","5",".",
     "p","d","f">>,
    <<"k","b","/","p","t","e","r","o","d","r","o","m","a","R","e","f","s","_","v","1",".",
     "1","5",".","p","d","f">>,
    <<"/","d","a","t","a","/","d","o","c","s","/","p","t","e","r","o","d","r","o","m","a",
     "R","e","f","s","_","v","1",".","1","5",".","p","d","f">>,
    <<"S","h","i","r","i","h","a","i","_","J","a","m","a","i","c","a","_","A","t","S","e",
     "a","_","N","o","v","0","9",".","p","d","f">>,
    <<"k","b","/","S","h","i","r","i","h","a","i","_","J","a","m","a","i","c","a","_","A",
     "t","S","e","a","_","N","o","v","0","9",".","p","d","f">>,
    <<"/","d","a","t","a","/","d","o","c","s","/","S","h","i","r","i","h","a","i","_","J",
     "a","m","a","i","c","a","_","A","t","S","e","a","_","N","o","v","0","9",".","p","d",
     "f">>,
    <<"s","r","e","p","2","3","4","4","7",".","p","d","f">>,
    <<"k","b","/","s","r","e","p","2","3","4","4","7",".","p","d","f">>,
    <<"/","d","a","t","a","/","d","o","c","s","/","s","r","e","p","2","3","4","4","7",".",
     "p","d","f">>,
    <<"T","h","e","_","s","e","p","a","r","a","t","i","o","n","_","o","f","_","P","t","e",
     "r","o","d","r","o","m","a","_","m","a","d","e","i","r","a","_","Z","i","n",".","p",
     "d","f">>,
    <<"k","b","/","T","h","e","_","s","e","p","a","r","a","t","i","o","n","_","o","f","_",
     "P","t","e","r","o","d","r","o","m","a","_","m","a","d","e","i","r","a","_","Z","i",
     "n",".","p","d","f">>,
    <<"/","d","a","t","a","/","d","o","c","s","/","T","h","e","_","s","e","p","a","r","a",
     "t","i","o","n","_","o","f","_","P","t","e","r","o","d","r","o","m","a","_","m","a",
     "d","e","i","r","a","_","Z","i","n",".","p","d","f">>,
    <<"v","3","6","n","6","p","5","8","6",".","p","d","f">>,
    <<"k","b","/","v","3","6","n","6","p","5","8","6",".","p","d","f">>,
    <<"/","d","a","t","a","/","d","o","c","s","/","v","3","6","n","6","p","5","8","6",".",
     "p","d","f">>,
    <<"v","4","0","n","6","p","2","8",".","p","d","f">>,
    <<"k","b","/","v","4","0","n","6","p","2","8",".","p","d","f">>,
    <<"/","d","a","t","a","/","d","o","c","s","/","v","4","0","n","6","p","2","8",".","p",
     "d","f">>,
    <<"Z","i","n","o","_","s","_","P","e","t","r","e","l","_","P","t","e","r","o","d","r",
     "o","m","a","_","m","a","d","e","i","r","a","_","o","f","f","_","N","o","r",".","p",
     "d","f">>,
    <<"k","b","/","Z","i","n","o","_","s","_","P","e","t","r","e","l","_","P","t","e","r",
     "o","d","r","o","m","a","_","m","a","d","e","i","r","a","_","o","f","f","_","N","o",
     "r",".","p","d","f">>,
    <<"/","d","a","t","a","/","d","o","c","s","/","Z","i","n","o","_","s","_","P","e","t",
     "r","e","l","_","P","t","e","r","o","d","r","o","m","a","_","m","a","d","e","i","r",
     "a","_","o","f","f","_","N","o","r",".","p","d","f">>,
    <<"z","i","n","o","s","-","p","e","t","r","e","l","-","1","9","9","5",".","p","d","f">>,
    <<"k","b","/","z","i","n","o","s","-","p","e","t","r","e","l","-","1","9","9","5",".",
     "p","d","f">>,
    <<"/","d","a","t","a","/","d","o","c","s","/","z","i","n","o","s","-","p","e","t","r",
     "e","l","-","1","9","9","5",".","p","d","f">>,
    <<"z","l","a","e","1","2","3",".","p","d","f">>,
    <<"k","b","/","z","l","a","e","1","2","3",".","p","d","f">>,
    <<"/","d","a","t","a","/","d","o","c","s","/","z","l","a","e","1","2","3",".","p","d",
     "f">>,
    <<"u","n","k","n","o","w","n">>,
    <<"U","n","k","n","o","w","n">>,
    <<"m","y","_","n","o","t","e","s","-","2","0","2","0",".","p","d","f">>,
    <<"k","b","/","f","i","e","l","d","_","r","e","p","o","r","t","-","v","2",".","P","D",
     "F">>,
    <<"a","/","b","/">>,
    <<"Z","I","N","O","S","-","p","e","t","r","e","l","-","1","9","9","5",".","p","d","f">>,
    <<"n","o","t","e","s">>,
    <<"x","_","y","-","z">>,
    <<"3","d","_","m","a","p",".","p","d","f">>,
    <<"z","i","n","o","'","s","_","l","o","g",".","p","d","f">>,
    <<"k","b","/","U","n","k","n","o","w","n">>,
    <<"d","o","c","s","/","u","n","k","n","o","w","n">>
>>

\* The name a run of get_friendly_filename returns for each of them, recorded
\* here and used in the claims only.
FriendlyExpected == <<
    <<"U","n","k","n","o","w","n"," ","D","o","c","u","m","e","n","t">>,
    <<"S","i","m","o","n","s"," ","e","t"," ","a","l"," ","2","0","1","3"," ","-"," ","D",
     "i","a","b","l","o","t","i","n"," ","P","t","e","r","o","d","r","o","m","a"," ","h",
     "a","s","i","t","a","t","a"," ","B","i","o","g","r","a","p","h","y"," ","o","f"," ",
     "t","h","e"," ","B","l","a","c","k","-","c","a","p","p","e","d"," ","P","e","t","r",
     "e","l">>,
    <<"S","i","m","o","n","s"," ","e","t"," ","a","l"," ","2","0","1","3"," ","-"," ","D",
     "i","a","b","l","o","t","i","n"," ","P","t","e","r","o","d","r","o","m","a"," ","h",
     "a","s","i","t","a","t","a"," ","B","i","o","g","r","a","p","h","y"," ","o","f"," ",
     "t","h","e"," ","B","l","a","c","k","-","c","a","p","p","e","d"," ","P","e","t","r",
     "e","l">>,
    <<"S","i","m","o","n","s"," ","e","t"," ","a","l"," ","2","0","1","3"," ","-"," ","D",
     "i","a","b","l","o","t","i","n"," ","P","t","e","r","o","d","r","o","m","a"," ","h",
     "a","s","i","t","a","t","a"," ","B","i","o","g","r","a","p","h","y"," ","o","f"," ",
     "t","h","e"," ","B","l","a","c","k","-","c","a","p","p","e","d"," ","P","e","t","r",
     "e","l">>,
    <<"F","l","o","o","d"," ","2","0","2","4"," ","-"," ","Z","i","n","o","'","s"," ","P",
     "e","t","r","e","l"," ","o","f","f"," ","S","c","i","l","l","y"," ","n","e","w"," ",
     "t","o"," ","B","r","i","t","a","i","n">>,
    <<"F","l","o","o","d"," ","2","0","2","4"," ","-"," ","Z","i","n","o","'","s"," ","P",
     "e","t","r","e","l"," ","o","f","f"," ","S","c","i","l","l","y"," ","n","e","w"," ",
     "t","o"," ","B","r","i","t","a","i","n">>,
    <<"F","l","o","o","d"," ","2","0","2","4"," ","-"," ","Z","i","n","o","'","s"," ","P",
     "e","t","r","e","l"," ","o","f","f"," ","S","c","i","l","l","y"," ","n","e","w"," ",
     "t","o"," ","B","r","i","t","a","i","n">>,
    <<"B","i","r","d","L","i","f","e"," ","I","n","t","e","r","n","a","t","i","o","n","a",
     "l"," ","2","0","2","1"," ","-"," ","P","t","e","r","o","d","r","o","m","a"," ","m",
     "a","d","e","i","r","a"," ","Z","i","n","o","s"," ","P","e","t","r","e","l">>,
    <<"B","i","r","d","L","i","f","e"," ","I","n","t","e","r","n","a","t","i","o","n","a",
     "l"," ","2","0","2","1"," ","-"," ","P","t","e","r","o","d","r","o","m","a"," ","m",
     "a","d","e","i","r","a"," ","Z","i","n","o","s"," ","P","e","t","r","e","l">>,
    <<"B","i","r","d","L","i","f","e"," ","I","n","t","e","r","n","a","t","i","o","n","a",
     "l"," ","2","0","2","1"," ","-"," ","P","t","e","r","o","d","r","o","m","a"," ","m",
     "a","d","e","i","r","a"," ","Z","i","n","o","s"," ","P","e","t","r","e","l">>,
    <<"Z","i","n","o"," ","e","t"," ","a","l"," ","2","0","0","1"," ","-"," ","C","o","n",
     "s","e","r","v","a","t","i","o","n"," ","o","f"," ","Z","i","n","o","s"," ","p","e",
     "t","r","e","l"," ","P","t","e","r","o","d","r","o","m","a"," ","m","a","d","e","i",
     "r","a"," ","i","n"," ","M","a","d","e","i","r","a">>,
    <<"Z","i","n","o"," ","e","t"," ","a","l"," ","2","0","0","1"," ","-"," ","C","o","n",
     "s","e","r","v","a","t","i","o","n"," ","o","f"," ","Z","i","n","o","s"," ","p","e",
     "t","r","e","l"," ","P","t","e","r","o","d","r","o","m","a"," ","m","a","d","e","i",
     "r","a"," ","i","n"," ","M","a","d","e","i","r","a">>,
    <<"Z","i","n","o"," ","e","t"," ","a","l"," ","2","0","0","1"," ","-"," ","C","o","n",
     "s","e","r","v","a","t","i","o","n"," ","o","f"," ","Z","i","n","o","s"," ","p","e",
     "t","r","e","l"," ","P","t","e","r","o","d","r","o","m","a"," ","m","a","d","e","i",
     "r","a"," ","i","n"," ","M","a","d","e","i","r","a">>,
    <<"Z","i","n","o"," ","e","t"," ","a","l"," ","2","0","0","1"," ","-"," ","C","o","n",
     "s","e","r","v","a","t","i","o","n"," ","o","f"," ","Z","i","n","o","s"," ","p","e",
     "t","r","e","l"," ","P","t","e","r","o","d","r","o","m","a"," ","m","a","d","e","i",
     "r","a"," ","i","n"," ","M","a","d","e","i","r","a">>,
    <<"Z","i","n","o"," ","e","t"," ","a","l"," ","2","0","0","1"," ","-"," ","C","o","n",
     "s","e","r","v","a","t","i","o","n"," ","o","f"," ","Z","i","n","o","s"," ","p","e",
     "t","r","e","l"," ","P","t","e","r","o","d","r","o","m","a"," ","m","a","d","e","i",
     "r","a"," ","i","n"," ","M","a","d","e","i","r","a">>,
    <<"Z","i","n","o"," ","e","t"," ","a","l"," ","2","0","0","1"," ","-"," ","C","o","n",
     "s","e","r","v","a","t","i","o","n"," ","o","f"," ","Z","i","n","o","s"," ","p","e",
     "t","r","e","l"," ","P","t","e","r","o","d","r","o","m","a"," ","m","a","d","e","i",
     "r","a"," ","i","n"," ","M","a","d","e","i","r","a">>,
    <<"B","i","r","d","L","i","f","e"," ","I","n","t","e","r","n","a","t","i","o","n","a",
     "l"," ","2","0","1","0"," ","-"," ","R","a","c","e"," ","a","g","a","i","n","s","t",
     " ","t","h","e"," ","c","l","o","c","k"," ","t","o"," ","s","a","v","e"," ","Z","i",
     "n","o","s"," ","P","e","t","r","e","l">>,
    <<"B","i","r","d","L","i","f","e"," ","I","n","t","e","r","n","a","t","i","o","n","a",
     "l"," ","2","0","1","0"," ","-"," ","R","a","c","e"," ","a","g","a","i","n","s","t",
     " ","t","h","e"," ","c","l","o","c","k"," ","t","o"," ","s","a","v","e"," ","Z","i",
     "n","o","s"," ","P","e","t","r","e","l">>,
    <<"B","i","r","d","L","i","f","e"," ","I","n","t","e","r","n","a","t","i","o","n","a",
     "l"," ","2","0","1","0"," ","-"," ","R","a","c","e"," ","a","g","a","i","n","s","t",
     " ","t","h","e"," ","c","l","o","c","k"," ","t","o"," ","s","a","v","e"," ","Z","i",
     "n","o","s"," ","P","e","t","r","e","l">>,
    <<"F","l","o","o","d"," ","2","0","2","1"," ","-"," ","O","R","I","O","L","E"," ","B",
     "I","R","D","I","N","G"," ","T","O","U","R"," ","T","O"," ","M","A","D","E","I","R",
     "A"," ","E","N","D","E","M","I","C","S"," ","A","N","D"," ","S","E","A","B","I","R",
     "D","S"," ","5","-","9"," ","J","U","L","Y"," ","2","0","2","1">>,
    <<"F","l","o","o","d"," ","2","0","2","1"," ","-"," ","O","R","I","O","L","E"," ","B",
     "I","R","D","I","N","G"," ","T","O","U","R"," ","T","O"," ","M","A","D","E","I","R",
     "A"," ","E","N","D","E","M","I","C","S"," ","A","N","D"," ","S","E","A","B","I","R",
     "D","S"," ","5","-","9"," ","J","U","L","Y"," ","2","0","2","1">>,
    <<"F","l","o","o","d"," ","2","0","2","1"," ","-"," ","O","R","I","O","L","E"," ","B",
     "I","R","D","I","N","G"," ","T","O","U","R"," ","T","O"," ","M","A","D","E","I","R",
     "A"," ","E","N","D","E","M","I","C","S"," ","A","N","D"," ","S","E","A","B","I","R",
     "D","S"," ","5","-","9"," ","J","U","L","Y"," ","2","0","2","1">>,
    <<"K","o","p","p","e","n","o","l"," ","2","0","2","4"," ","-"," ","M","A","D","E","I",
     "R","A"," ","T","O","U","R"," ","R","E","P","O","R","T"," ","2","0","2","4">>,
    <<"K","o","p","p","e","n","o","l"," ","2","0","2","4"," ","-"," ","M","A","D","E","I",
     "R","A"," ","T","O","U","R"," ","R","E","P","O","R","T"," ","2","0","2","4">>,
    <<"K","o","p","p","e","n","o","l"," ","2","0","2","4"," ","-"," ","M","A","D","E","I",
     "R","A"," ","T","O","U","R"," ","R","E","P","O","R","T"," ","2","0","2","4">>,
    <<"B","r","i","n","k","l","e","y"," ","2","0","0","4"," ","-"," ","Z","i","n","o","s",
     " ","P","e","t","r","e","l"," ","a","t"," ","s","e","a"," ","o","f","f"," ","M","a",
     "d","e","i","r","a"," ","2","7"," ","A","p","r","i","l"," ","2","0","0","4">>,
    <<"B","r","i","n","k","l","e","y"," ","2","0","0","4"," ","-"," ","Z","i","n","o","s",
     " ","P","e","t","r","e","l"," ","a","t"," ","s","e","a"," ","o","f","f"," ","M","a",
     "d","e","i","r","a"," ","2","7"," ","A","p","r","i","l"," ","2","0","0","4">>,
    <<"B","r","i","n","k","l","e","y"," ","2","0","0","4"," ","-"," ","Z","i","n","o","s",
     " ","P","e","t","r","e","l"," ","a","t"," ","s","e","a"," ","o","f","f"," ","M","a",
     "d","e","i","r","a"," ","2","7"," ","A","p","r","i","l"," ","2","0","0","4">>,
    <<"H","o","b","b","s"," ","2","0","1","7"," ","-"," ","P","t","e","r","o","d","r","o",
     "m","a"," ","R","e","f","e","r","e","n","c","e"," ","L","i","s","t"," ","-"," ","C",
     "o","m","p","r","e","h","e","n","s","i","v","e"," ","b","i","b","l","i","o","g","r",
     "a","p","h","y"," ","o","f"," ","g","a","d","f","l","y"," ","p","e","t","r","e","l",
     "s">>,
    <<"H","o","b","b","s"," ","2","0","1","7"," ","-"," ","P","t","e","r","o","d","r","o",
     "m","a"," ","R","e","f","e","r","e","n","c","e"," ","L","i","s","t"," ","-"," ","C",
     "o","m","p","r","e","h","e","n","s","i","v","e"," ","b","i","b","l","i","o","g","r",
     "a","p","h","y"," ","o","f"," ","g","a","d","f","l","y"," ","p","e","t","r","e","l",
     "s">>,
    <<"H","o","b","b","s"," ","2","0","1","7"," ","-"," ","P","t","e","r","o","d","r","o",
     "m","a"," ","R","e","f","e","r","e","n","c","e"," ","L","i","s","t"," ","-"," ","C",
     "o","m","p","r","e","h","e","n","s","i","v","e"," ","b","i","b","l","i","o","g","r",
     "a","p","h","y"," ","o","f"," ","g","a","d","f","l","y"," ","p","e","t","r","e","l",
     "s">>,
    <<"S","h","i","r","i","h","a","i"," ","e","t"," ","a","l"," ","2","0","1","0"," ","-",
     " ","J","a","m","a","i","c","a"," ","P","e","t","r","e","l"," ","P","t","e","r","o",
     "d","r","o","m","a"," ","c","a","r","i","b","b","a","e","a"," ","P","e","l","a","g",
     "i","c"," ","e","x","p","e","d","i","t","i","o","n"," ","r","e","p","o","r","t">>,
    <<"S","h","i","r","i","h","a","i"," ","e","t"," ","a","l"," ","2","0","1","0"," ","-",
     " ","J","a","m","a","i","c","a"," ","P","e","t","r","e","l"," ","P","t","e","r","o",
     "d","r","o","m","a"," ","c","a","r","i","b","b","a","e","a"," ","P","e","l","a","g",
     "i","c"," ","e","x","p","e","d","i","t","i","o","n"," ","r","e","p","o","r","t">>,
    <<"S","h","i","r","i","h","a","i"," ","e","t"," ","a","l"," ","2","0","1","0"," ","-",
     " ","J","a","m","a","i","c","a"," ","P","e","t","r","e","l"," ","P","t","e","r","o",
     "d","r","o","m","a"," ","c","a","r","i","b","b","a","e","a"," ","P","e","l","a","g",
     "i","c"," ","e","x","p","e","d","i","t","i","o","n"," ","r","e","p","o","r","t">>,
    <<"R","a","m","o","s"," ","e","t"," ","a","l"," ","2","0","1","6"," ","-"," ","G","l",
     "o","b","a","l"," ","s","p","a","t","i","a","l"," ","e","c","o","l","o","g","y"," ",
     "o","f"," ","t","h","r","e","e"," ","c","l","o","s","e","l","y"," ","r","e","l","a",
     "t","e","d"," ","g","a","d","f","l","y"," ","p","e","t","r","e","l","s">>,
    <<"R","a","m","o","s"," ","e","t"," ","a","l"," ","2","0","1","6"," ","-"," ","G","l",
     "o","b","a","l"," ","s","p","a","t","i","a","l"," ","e","c","o","l","o","g","y"," ",
     "o","f"," ","t","h","r","e","e"," ","c","l","o","s","e","l","y"," ","r","e","l","a",
     "t","e","d"," ","g","a","d","f","l","y"," ","p","e","t","r","e","l","s">>,
    <<"R","a","m","o","s"," ","e","t"," ","a","l"," ","2","0","1","6"," ","-"," ","G","l",
     "o","b","a","l"," ","s","p","a","t","i","a","l"," ","e","c","o","l","o","g","y"," ",
     "o","f"," ","t","h","r","e","e"," ","c","l","o","s","e","l","y"," ","r","e","l","a",
     "t","e","d"," ","g","a","d","f","l","y"," ","p","e","t","r","e","l","s">>,
    <<"Z","i","n","o"," ","e","t"," ","a","l"," ","2","0","0","8"," ","-"," ","T","h","e",
     " ","s","e","p","a","r","a","t","i","o","n"," ","o","f"," ","P","t","e","r","o","d",
     "r","o","m","a"," ","m","a","d","e","i","r","a"," ","f","r","o","m"," ","P","t","e",
     "r","o","d","r","o","m","a"," ","f","e","a","e">>,
    <<"Z","i","n","o"," ","e","t"," ","a","l"," ","2","0","0","8"," ","-"," ","T","h","e",
     " ","s","e","p","a","r","a","t","i","o","n"," ","o","f"," ","P","t","e","r","o","d",
     "r","o","m","a"," ","m","a","d","e","i","r","a"," ","f","r","o","m"," ","P","t","e",
     "r","o","d","r","o","m","a"," ","f","e","a","e">>,
    <<"Z","i","n","o"," ","e","t"," ","a","l"," ","2","0","0","8"," ","-"," ","T","h","e",
     " ","s","e","p","a","r","a","t","i","o","n"," ","o","f"," ","P","t","e","r","o","d",
     "r","o","m","a"," ","m","a","d","e","i","r","a"," ","f","r","o","m"," ","P","t","e",
     "r","o","d","r","o","m","a"," ","f","e","a","e">>,
    <<"P","a","t","t","e","s","o","n"," ","&"," ","B","r","i","n","k","l","e","y"," ","2",
     "0","0","4"," ","-"," ","A"," ","P","e","t","r","e","l"," ","P","r","i","m","e","r",
     " ","-"," ","T","h","e"," ","G","a","d","f","l","i","e","s"," ","o","f"," ","N","o",
     "r","t","h"," ","C","a","r","o","l","i","n","a">>,
    <<"P","a","t","t","e","s","o","n"," ","&"," ","B","r","i","n","k","l","e","y"," ","2",
     "0","0","4"," ","-"," ","A"," ","P","e","t","r","e","l"," ","P","r","i","m","e","r",
     " ","-"," ","T","h","e"," ","G","a","d","f","l","i","e","s"," ","o","f"," ","N","o",
     "r","t","h"," ","C","a","r","o","l","i","n","a">>,
    <<"P","a","t","t","e","s","o","n"," ","&"," ","B","r","i","n","k","l","e","y"," ","2",
     "0","0","4"," ","-"," ","A"," ","P","e","t","r","e","l"," ","P","r","i","m","e","r",
     " ","-"," ","T","h","e"," ","G","a","d","f","l","i","e","s"," ","o","f"," ","N","o",
     "r","t","h"," ","C","a","r","o","l","i","n","a">>,
    <<"H","e","s","s"," ","2","0","0","8"," ","-"," ","F","e","a","s"," ","o","r"," ","Z",
     "i","n","o","s"," ","P","e","t","r","e","l">>,
    <<"H","e","s","s"," ","2","0","0","8"," ","-"," ","F","e","a","s"," ","o","r"," ","Z",
     "i","n","o","s"," ","P","e","t","r","e","l">>,
    <<"H","e","s","s"," ","2","0","0","8"," ","-"," ","F","e","a","s"," ","o","r"," ","Z",
     "i","n","o","s"," ","P","e","t","r","e","l">>,
    <<"P","a","t","t","e","s","o","n"," ","e","t"," ","a","l"," ","2","0","1","3"," ","-",
     " ","Z","i","n","o","s"," ","P","e","t","r","e","l"," ","P","t","e","r","o","d","r",
     "o","m","a"," ","m","a","d","e","i","r","a"," ","o","f","f"," ","N","o","r","t","h",
     " ","C","a","r","o","l","i","n","a"," ","-"," ","F","i","r","s","t"," ","f","o","r",
     " ","N","o","r","t","h"," ","A","m","e","r","i","c","a">>,
    <<"P","a","t","t","e","s","o","n"," ","e","t"," ","a","l"," ","2","0","1","3"," ","-",
     " ","Z","i","n","o","s"," ","P","e","t","r","e","l"," ","P","t","e","r","o","d","r",
     "o","m","a"," ","m","a","d","e","i","r","a"," ","o","f","f"," ","N","o","r","t","h",
     " ","C","a","r","o","l","i","n","a"," ","-"," ","F","i","r","s","t"," ","f","o","r",
     " ","N","o","r","t","h"," ","A","m","e","r","i","c","a">>,
    <<"P","a","t","t","e","s","o","n"," ","e","t"," ","a","l"," ","2","0","1","3"," ","-",
     " ","Z","i","n","o","s"," ","P","e","t","r","e","l"," ","P","t","e","r","o","d","r",
     "o","m","a"," ","m","a","d","e","i","r","a"," ","o","f","f"," ","N","o","r","t","h",
     " ","C","a","r","o","l","i","n","a"," ","-"," ","F","i","r","s","t"," ","f","o","r",
     " ","N","o","r","t","h"," ","A","m","e","r","i","c","a">>,
    <<"Z","i","n","o"," ","e","t"," ","a","l"," ","1","9","9","5"," ","-"," ","A","c","t",
     "i","o","n"," ","P","l","a","n"," ","f","o","r"," ","Z","i","n","o","s"," ","P","e",
     "t","r","e","l"," ","P","t","e","r","o","d","r","o","m","a"," ","m","a","d","e","i",
     "r","a">>,
    <<"Z","i","n","o"," ","e","t"," ","a","l"," ","1","9","9","5"," ","-"," ","A","c","t",
     "i","o","n"," ","P","l","a","n"," ","f","o","r"," ","Z","i","n","o","s"," ","P","e",
     "t","r","e","l"," ","P","t","e","r","o","d","r","o","m","a"," ","m","a","d","e","i",
     "r","a">>,
    <<"Z","i","n","o"," ","e","t"," ","a","l"," ","1","9","9","5"," ","-"," ","A","c","t",
     "i","o","n"," ","P","l","a","n"," ","f","o","r"," ","Z","i","n","o","s"," ","P","e",
     "t","r","e","l"," ","P","t","e","r","o","d","r","o","m","a"," ","m","a","d","e","i",
     "r","a">>,
    <<"R","a","n","d","o"," ","e","t"," ","a","l"," ","2","0","2","4"," ","-"," ","P","t",
     "e","r","o","d","r","o","m","a"," ","z","i","n","o","r","u","m"," ","B","i","o","g",
     "r","a","p","h","y"," ","o","f"," ","a","n"," ","e","x","t","i","n","c","t"," ","A",
     "z","o","r","e","a","n"," ","p","e","t","r","e","l">>,
    <<"R","a","n","d","o"," ","e","t"," ","a","l"," ","2","0","2","4"," ","-"," ","P","t",
     "e","r","o","d","r","o","m","a"," ","z","i","n","o","r","u","m"," ","B","i","o","g",
     "r","a","p","h","y"," ","o","f"," ","a","n"," ","e","x","t","i","n","c","t"," ","A",
     "z","o","r","e","a","n"," ","p","e","t","r","e","l">>,
    <<"R","a","n","d","o"," ","e","t"," ","a","l"," ","2","0","2","4"," ","-"," ","P","t",
     "e","r","o","d","r","o","m","a"," ","z","i","n","o","r","u","m"," ","B","i","o","g",
     "r","a","p","h","y"," ","o","f"," ","a","n"," ","e","x","t","i","n","c","t"," ","A",
     "z","o","r","e","a","n"," ","p","e","t","r","e","l">>,
    <<"U","n","k","n","o","w","n"," ","D","o","c","u","m","e","n","t">>,
    <<"U","n","k","n","o","w","n">>,
    <<"M","y"," ","N","o","t","e","s"," ","2","0","2","0",".","P","d","f">>,
    <<"F","i","e","l","d"," ","R","e","p","o","r","t"," ","V","2",".","P","d","f">>,
    <<>>,
    <<"Z","i","n","o","s"," ","P","e","t","r","e","l"," ","1","9","9","5",".","P","d","f">>,
    <<"N","o","t","e","s">>,
    <<"X"," ","Y"," ","Z">>,
    <<"3","D"," ","M","a","p",".","P","d","f">>,
    <<"Z","i","n","o","'","S"," ","L","o","g",".","P","d","f">>,
    <<"U","n","k","n","o","w","n">>,
    <<"U","n","k","n","o","w","n"," ","D","o","c","u","m","e","n","t">>
>>

\* One call of get_friendly_filename.
InitFriendly ==
    /\ RegistryIdle
    /\ RetrieveIdle
    /\ FactCheckIdle
    /\ ReaskIdle
    /\ TtsIdle
    /\ VsIdle
    /\ ReqIdle
    /\ given_source_file \in 1..Len(SourceFiles)
    /\ friendly_name_result = [kind |-> "none"]

get_friendly_filename_run ==
    /\ friendly_name_result.kind = "none"
    /\ friendly_name_result' =
           [kind |-> "str", text |-> get_friendly_filename(SourceFiles[given_source_file])]
    /\ UNCHANGED given_source_file

NextFriendly ==
    get_friendly_filename_run /\ UNCHANGED <<regVars, retVars, fcVars, reaskVars, restVars>>

SpecFriendly == InitFriendly /\ [][NextFriendly]_vars

\* The file names of the table, and the base name of a path as the text after
\* its last "/".
MappedKeys == {filename_mapping[i].key : i \in 1..Len(filename_mapping)}
AfterLastSlash(path) ==
    CHOOSE t \in {SubSeq(path, i, Len(path)) : i \in 1..(Len(path) + 1)} :
        /\ \A j \in 1..Len(t) : t[j] # "/"
        /\ Len(t) = Len(path) \/ path[Len(path) - Len(t)] = "/"

\* C33: for every source_file value, an absent or empty one included,
\* get_friendly_filename returns a label: the table entry when the base name
\* is mapped, 'Unknown Document' when there is no source file, and otherwise
\* the base name with '_' and '-' replaced by spaces and title-cased, which is
\* the name a run of the function returns.
C33_CitationLookupTotal ==
    friendly_name_result.kind = "str" =>
        LET path == SourceFiles[given_source_file]
            label == friendly_name_result.text
        IN  /\ label = FriendlyExpected[given_source_file]
            /\ path = <<>> =>
                   label = <<"U","n","k","n","o","w","n"," ","D","o","c","u","m","e","n","t">>
            /\ (path # <<>> /\ AfterLastSlash(path) \in MappedKeys) =>
                   \E i \in 1..Len(filename_mapping) :
                       /\ filename_mapping[i].key = AfterLastSlash(path)
                       /\ filename_mapping[i].name = label
            /\ (path # <<>> /\ AfterLastSlash(path) \notin MappedKeys) =>
                   /\ Len(label) = Len(AfterLastSlash(path))
                   /\ \A j \in 1..Len(label) : label[j] \notin {"_", "-"}

\* The call returned for a path with a directory whose base name is not in the
\* table and holds both '_' and '-'.
C33_Witness ==
    /\ friendly_name_result.kind = "str"
    /\ SourceFiles[given_source_file] =
           <<"k","b","/","f","i","e","l","d","_","r","e","p","o","r","t","-","v","2",".","P","D","F">>
    /\ friendly_name_result.text =
           <<"F","i","e","l","d"," ","R","e","p","o","r","t"," ","V","2",".","P","d","f">>

\* The call returned for an absent source file.
C33_WitnessAbsent ==
    /\ friendly_name_result.kind = "str"
    /\ SourceFiles[given_source_file] = <<>>

(***************************************************************************)
(* Further claims about generate_fact_check_content (checked under         *)
(* SpecGenerate).                                                          *)
(***************************************************************************)

\* C37: when web search is disabled, web_search_supplement returns None
\* without invoking the query optimizer or any search provider, and the
\* composed output then has no web section.
C37_DisabledSearchDoesNothing ==
    (~use_web_search /\ fpc \in {"returned", "composed"}) =>
        /\ web_result = ReturnNone
        /\ optimized_query = ""
        /\ ddg_call = "none"
        /\ tavily_call = "none"
        /\ raw_results = <<>>
        /\ response = [kind |-> "none"]
        /\ fpc = "composed" => content.parts = <<header(language), kb_summary>>

\* The output was composed from retrieved documents with web search disabled.
C37_Witness ==
    /\ fpc = "composed"
    /\ ~use_web_search
    /\ request_docs # <<>>
    /\ web_result = ReturnNone
    /\ Len(content.parts) = 2

\* The localized texts of each language.
PortugueseTexts ==
    {"U+1F4CB **Verificacao de Factos Baseada em Conhecimento Cientifico**",
     "U+1F4DA **Fontes:**",
     "U+1F4C4 Informacao extraida dos documentos:",
     "U+1F4DA Fonte:",
     "U+1F310 **Informacao da Internet:**"}
EnglishTexts ==
    {"U+1F4CB **Fact-Check Based on Scientific Knowledge**",
     "U+1F4DA **Sources:**",
     "U+1F4C4 Information from documents:",
     "U+1F4DA Source:",
     "U+1F310 **Internet Information:**"}

\* The localized texts of the output: the header, those of the knowledge-base
\* part, and the heading of the web section when there is one.
LocalizedIn(part) ==
    IF part.kind = "summary" THEN {part.heading}
    ELSE IF part.kind = "excerpt" THEN {part.heading, part.source_heading}
    ELSE IF part.kind = "str" THEN {part.heading}
    ELSE {}
LocalizedParts ==
    {content.parts[1]} \cup LocalizedIn(content.parts[2])
        \cup (IF Len(content.parts) = 4 THEN LocalizedIn(content.parts[4]) ELSE {})

\* C38: within one request every localized part of the output (header, Sources
\* footer or excerpt labels, web-section heading) is in the same language:
\* Portuguese when language is 'Portuguese', English for every other value.
C38_OneLanguagePerRequest ==
    fpc = "composed" =>
        /\ language = "Portuguese" => LocalizedParts \subseteq PortugueseTexts
        /\ language # "Portuguese" => LocalizedParts \subseteq EnglishTexts
        /\ Cardinality(LocalizedParts) >= 2

\* An output with a web section was composed for a language that is neither
\* 'Portuguese' nor 'English'.
C38_Witness ==
    /\ fpc = "composed"
    /\ language \notin {"Portuguese", "English"}
    /\ Len(content.parts) = 4
    /\ kb_summary.kind = "excerpt"
    /\ Cardinality(LocalizedParts) = 4

\* The same for 'Portuguese', with a summary and its Fontes footer.
C38_WitnessPortuguese ==
    /\ fpc = "composed"
    /\ language = "Portuguese"
    /\ Len(content.parts) = 4
    /\ kb_summary.kind = "summary"
    /\ LocalizedParts \subseteq PortugueseTexts

(***************************************************************************)
(* rag_utils.py: the instance cache under sequential use, as in            *)
(* test_rag_quality.py: a call or property read runs to its end before     *)
(* another thread starts one.                                              *)
(***************************************************************************)

\* No other thread is inside get_rag_instance or the vectordb property.
Quiet(t) == \A u \in Threads \ {t} : pc[u] \in {"idle", "have", "got", "raised"}

NextSequential ==
    /\ \/ \E t \in Threads : Quiet(t) /\ get_rag_instance_call(t)
       \/ \E t \in Threads : Quiet(t) /\ get_rag_instance(t)
       \/ \E t \in Threads : Quiet(t) /\ vectordb(t)
       \/ ServiceChange
    /\ UNCHANGED <<retVars, fcVars, moreVars>>

InitSequential ==
    /\ InitRegistry
    /\ RetrieveIdle
    /\ FactCheckIdle
    /\ ReaskIdle
    /\ NameIdle
    /\ TtsIdle
    /\ VsIdle
    /\ ReqIdle

SpecSequential == InitSequential /\ [][NextSequential]_vars

\* C32: the store connection is created lazily: get_rag_instance alone opens
\* no connection and the instance it constructs has none; the first retrieve
\* or get_stats on the instance builds it; under sequential use every later
\* access returns the connection already held and builds nothing, so at most
\* one connection is built per location.
C32_LazyConnectionBuiltOnce ==
    /\ [](\A l \in Locations : Cardinality(ConnsFor(l)) <= 1)
    /\ [][\A t \in Threads :
            /\ (InCall(t) /\ pc'[t] # pc[t])
                   => /\ conns' = conns
                      /\ \A i \in 1..Len(instances) :
                             instances'[i].vectordb = instances[i].vectordb
                      /\ \A i \in (Len(instances) + 1)..Len(instances') :
                             instances'[i].vectordb = None
            /\ (pc[t] \in {"have", "got", "raised"} /\ pc'[t] \in {"build", "vreturn"})
                   => IF instances[rag[t]].vectordb = None
                      THEN pc'[t] = "build"
                      ELSE pc'[t] = "vreturn" /\ conns' = conns
            /\ (pc[t] = "vreturn" /\ pc'[t] = "got")
                   => /\ db'[t] = instances[rag[t]].vectordb
                      /\ conns' = conns
                      /\ instances' = instances]_vars

\* An access returned the connection that an earlier access had built: the
\* thread itself built nothing during it.
C32_Witness ==
    \E t \in Threads :
        /\ pc[t] = "got"
        /\ newconn[t] = None
        /\ IsBuiltConn(db[t])
        /\ Cardinality(ConnsFor(arg[t].persist_directory)) = 1

\* C35: the registry key is the storage location only: after an instance for
\* a location was created with credentials c1, a get_rag_instance call for
\* that location with other credentials c2 returns the existing instance,
\* still bound to c1, and constructs nothing.
C35_KeyIsLocationOnly ==
    \A t \in Threads :
        (/\ pc[t] = "have"
         /\ known[t] # {}
         /\ \A i \in known[t] : instances[i].dashscope_api_key # arg[t].dashscope_api_key)
            => /\ rag[t] \in known[t]
               /\ newobj[t] = None
               /\ instances[rag[t]].dashscope_api_key # arg[t].dashscope_api_key

\* C35 under sequential use: the call returned the instance created with the
\* other credentials.
C35_SequentialWitness ==
    \E t \in Threads :
        /\ pc[t] = "have"
        /\ known[t] # {}
        /\ rag[t] \in known[t]
        /\ newobj[t] = None
        /\ instances[rag[t]].dashscope_api_key # arg[t].dashscope_api_key

(***************************************************************************)
(* tts_utils.py: speak and its fallbacks.                                  *)
(*                                                                         *)
(* A provider function answers (success, data or message); its answer is   *)
(* kept as "ok" or as the message of the failure.  speak_result keeps the  *)
(* first and the third element of the tuple speak returns.                 *)
(***************************************************************************)

TtsLanguages == {"English", "Portuguese", "Spanish"}
PortugueseVariants == {"european", "brazilian"}
Voices == {"Cherry", "Ethan"}

\* What each provider function can answer.
AzureAnswers == {"ok", "Azure TTS key not found", "Azure TTS failed", "Azure TTS error"}
OpenAIAnswers == {"ok", "Missing OpenAI API Key", "OpenAI European Portuguese TTS failed"}
QwenAnswers == {"ok", "Missing API Key", "No audio URL in response", "Qwen TTS failed"}
GttsAnswers == {"ok", "Exception"}

\* The first element of a provider's answer.
success(answer) == answer = "ok"

\* Variant of the dispatch that never asks Azure.
first_provider_without_azure(lang, variant) ==
    IF lang = "Portuguese" THEN "openai" ELSE "qwen"

\* Lines 192-196 and 241-244: the provider speak asks first.
first_provider(lang, variant) ==
    IF lang = "Portuguese"
    THEN (IF variant = "european" THEN "azure" ELSE "openai")
    ELSE "qwen"

InitSpeak ==
    /\ RegistryIdle
    /\ RetrieveIdle
    /\ FactCheckIdle
    /\ ReaskIdle
    /\ NameIdle
    /\ VsIdle
    /\ ReqIdle
    /\ spc = "speak"
    /\ tts_language \in TtsLanguages
    /\ portuguese_variant \in PortugueseVariants
    /\ tts_voice \in Voices
    /\ invoked = <<>>
    /\ speak_result = [kind |-> "none"]

\* Lines 192-194 and 240: the branch on language and portuguese_variant.
speak_begin ==
    /\ spc = "speak"
    /\ spc' = first_provider(tts_language, portuguese_variant)
    /\ UNCHANGED <<tts_language, portuguese_variant, tts_voice, invoked, speak_result>>

\* Lines 196-215: Azure, with the voice pt-PT-DuarteNeural.
speak_azure ==
    /\ spc = "azure"
    /\ \E answer \in AzureAnswers :
         /\ invoked' = Append(invoked, [provider |-> "azure", voice |-> "pt-PT-DuarteNeural",
                                        answer |-> answer])
         /\ IF success(answer)
            THEN /\ speak_result' = [kind |-> "returned", success |-> TRUE,
                                     provider |-> "Azure European Portuguese TTS"]
                 /\ spc' = "done"
            ELSE /\ spc' = "openai"
                 /\ UNCHANGED speak_result
    /\ UNCHANGED <<tts_language, portuguese_variant, tts_voice>>

\* Lines 217-239: OpenAI, with the voice onyx.
speak_openai ==
    /\ spc = "openai"
    /\ \E answer \in OpenAIAnswers :
         /\ invoked' = Append(invoked, [provider |-> "openai", voice |-> "onyx",
                                        answer |-> answer])
         /\ IF success(answer)
            THEN /\ speak_result' = [kind |-> "returned", success |-> TRUE,
                                     provider |-> "OpenAI European Portuguese TTS"]
                 /\ spc' = "done"
            ELSE /\ spc' = "gtts_pt"
                 /\ UNCHANGED speak_result
    /\ UNCHANGED <<tts_language, portuguese_variant, tts_voice>>

\* Lines 241-264: Qwen, with the caller's voice.
speak_qwen ==
    /\ spc = "qwen"
    /\ \E answer \in QwenAnswers :
         /\ invoked' = Append(invoked, [provider |-> "qwen", voice |-> tts_voice,
                                        answer |-> answer])
         /\ IF success(answer)
            THEN /\ speak_result' = [kind |-> "returned", success |-> TRUE,
                                     provider |-> "Qwen TTS"]
                 /\ spc' = "done"
            ELSE /\ spc' = "gtts"
                 /\ UNCHANGED speak_result
    /\ UNCHANGED <<tts_language, portuguese_variant, tts_voice>>

\* _fallback_gtts_european_portuguese (lines 267-294).
fallback_gtts_european_portuguese ==
    /\ spc = "gtts_pt"
    /\ \E answer \in GttsAnswers :
         /\ invoked' = Append(invoked, [provider |-> "gtts", voice |-> "pt", answer |-> answer])
         /\ speak_result' =
                IF success(answer)
                THEN [kind |-> "returned", success |-> TRUE,
                      provider |-> "gTTS European Portuguese (fallback)"]
                ELSE [kind |-> "returned", success |-> FALSE, provider |-> "None"]
    /\ spc' = "done"
    /\ UNCHANGED <<tts_language, portuguese_variant, tts_voice>>

\* _fallback_gtts (lines 297-323), called with lang "en".
fallback_gtts ==
    /\ spc = "gtts"
    /\ \E answer \in GttsAnswers :
         /\ invoked' = Append(invoked, [provider |-> "gtts", voice |-> "en", answer |-> answer])
         /\ speak_result' =
                IF success(answer)
                THEN [kind |-> "returned", success |-> TRUE, provider |-> "gTTS (fallback)"]
                ELSE [kind |-> "returned", success |-> FALSE, provider |-> "None"]
    /\ spc' = "done"
    /\ UNCHANGED <<tts_language, portuguese_variant, tts_voice>>

NextSpeak ==
    /\ \/ speak_begin
       \/ speak_azure
       \/ speak_openai
       \/ speak_qwen
       \/ fallback_gtts_european_portuguese
       \/ fallback_gtts
    /\ UNCHANGED <<regVars, retVars, fcVars, reaskVars, nameVars, vsVars, reqVars>>

SpecSpeak == InitSpeak /\ [][NextSpeak]_vars

(***************************************************************************)
(* Claims about speak (checked under SpecSpeak).                           *)
(***************************************************************************)

\* The cascade the claim gives for a language and variant, and the provider
\* names speak returns.
Cascade ==
    IF tts_language = "Portuguese" THEN <<"azure", "openai", "gtts">> ELSE <<"qwen", "gtts">>
ProviderNames(p) ==
    IF p = "azure" THEN {"Azure European Portuguese TTS"}
    ELSE IF p = "openai" THEN {"OpenAI European Portuguese TTS"}
    ELSE IF p = "qwen" THEN {"Qwen TTS"}
    ELSE {"gTTS European Portuguese (fallback)", "gTTS (fallback)"}

\* C39: speak tries the providers in a fixed cascade and stops at the first
\* success: Azure, OpenAI, gTTS for Portuguese (european variant); Qwen, gTTS
\* for any other language.  A later provider is invoked only after every
\* earlier one failed, the returned name is that of the provider that
\* succeeded, and success=False is returned only when every provider failed.
C39_SpeakCascade ==
    (tts_language = "Portuguese" => portuguese_variant = "european") =>
        /\ Len(invoked) <= Len(Cascade)
        /\ \A i \in 1..Len(invoked) :
               /\ invoked[i].provider = Cascade[i]
               /\ i < Len(invoked) => invoked[i].answer # "ok"
        /\ spc = "done" =>
               /\ Len(invoked) >= 1
               /\ speak_result.success = (invoked[Len(invoked)].answer = "ok")
               /\ speak_result.success =>
                      speak_result.provider \in ProviderNames(invoked[Len(invoked)].provider)
               /\ ~speak_result.success =>
                      /\ Len(invoked) = Len(Cascade)
                      /\ \A i \in 1..Len(invoked) : invoked[i].answer # "ok"
        /\ spc # "done" => \A i \in 1..Len(invoked) : invoked[i].answer # "ok"

\* For european Portuguese, Azure and OpenAI failed and gTTS succeeded.
C39_Witness ==
    /\ spc = "done"
    /\ tts_language = "Portuguese"
    /\ portuguese_variant = "european"
    /\ Len(invoked) = 3
    /\ speak_result.success
    /\ speak_result.provider = "gTTS European Portuguese (fallback)"

\* For another language every provider failed.
C39_WitnessAllFailed ==
    /\ spc = "done"
    /\ tts_language = "Spanish"
    /\ Len(invoked) = 2
    /\ ~speak_result.success

(***************************************************************************)
(* vectorize_knowledge_base.py: create_vector_store.                       *)
(*                                                                         *)
(* A chunk is a number; on_disk is the content of the collection under     *)
(* persist_directory, in insertion order.                                  *)
(***************************************************************************)

MaxChunks == 21

\* Line 115: batch_size = 10.
batch_size == 10

\* The chunk lists tried: all different, or repeating with period three.
ChunkLists ==
    {[j \in 1..n |-> j] : n \in 0..MaxChunks}
        \cup {[j \in 1..n |-> (j % 3) + 1] : n \in 0..MaxChunks}

\* What the directory holds before the call: nothing, or an older database.
OldStores == {<<>>, <<0, 0>>}

\* Variant of the slice that stops one chunk early.
batch_at_short(cs, i) == SubSeq(cs, i + 1, Min(i + batch_size - 1, Len(cs)))

\* Line 119: chunks[i:i + batch_size].
batch_at(cs, i) == SubSeq(cs, i + 1, Min(i + batch_size, Len(cs)))

InitVectorStore ==
    /\ RegistryIdle
    /\ RetrieveIdle
    /\ FactCheckIdle
    /\ ReaskIdle
    /\ NameIdle
    /\ TtsIdle
    /\ ReqIdle
    /\ vpc = "start"
    /\ chunks \in ChunkLists
    /\ on_disk \in OldStores
    /\ loop_i = 0
    /\ store_handle = None
    /\ stores_created = 0
    /\ batches = <<>>

\* Lines 108-116: the old database is removed; batch_size and vectordb are set.
\* An exception leads to sys.exit(1) (lines 136-140).
create_vector_store_clear ==
    /\ vpc = "start"
    /\ \/ /\ on_disk' = <<>>
          /\ vpc' = "loop"
       \/ /\ on_disk # <<>>
          /\ vpc' = "exited"
          /\ UNCHANGED on_disk
    /\ loop_i' = 0
    /\ store_handle' = None
    /\ UNCHANGED <<chunks, stores_created, batches>>

\* Lines 118-131: one turn of the loop.  The first batch creates the store
\* with Chroma.from_documents, a later one is added to it; the embedding call
\* may raise, which ends in sys.exit(1).
create_vector_store_batch ==
    /\ vpc = "loop"
    /\ loop_i < Len(chunks)
    /\ LET batch == batch_at(chunks, loop_i)
       IN  \/ /\ vpc' = "exited"
              /\ UNCHANGED <<on_disk, loop_i, store_handle, stores_created, batches>>
           \/ /\ IF store_handle = None
                 THEN /\ stores_created' = stores_created + 1
                      /\ store_handle' = stores_created'
                      /\ batches' = Append(batches, [call |-> "from_documents",
                                                     store |-> store_handle',
                                                     documents |-> batch])
                 ELSE /\ batches' = Append(batches, [call |-> "add_documents",
                                                     store |-> store_handle,
                                                     documents |-> batch])
                      /\ UNCHANGED <<stores_created, store_handle>>
              /\ on_disk' = on_disk \o batch
              /\ loop_i' = loop_i + batch_size
              /\ UNCHANGED vpc
    /\ UNCHANGED chunks

\* Lines 133-134: after the loop, return vectordb.
create_vector_store_return ==
    /\ vpc = "loop"
    /\ loop_i >= Len(chunks)
    /\ vpc' = "returned"
    /\ UNCHANGED <<chunks, on_disk, loop_i, store_handle, stores_created, batches>>

NextVectorStore ==
    /\ \/ create_vector_store_clear
       \/ create_vector_store_batch
       \/ create_vector_store_return
    /\ UNCHANGED <<regVars, retVars, fcVars, reaskVars, nameVars, ttsVars, reqVars>>

SpecVectorStore == InitVectorStore /\ [][NextVectorStore]_vars

(***************************************************************************)
(* Claims about create_vector_store (checked under SpecVectorStore).       *)
(***************************************************************************)

\* The documents of the batches handed to the store, one after another.
RECURSIVE Handed(_)
Handed(n) == IF n = 0 THEN <<>> ELSE Handed(n - 1) \o batches[n].documents

\* C40: create_vector_store adds every chunk to the store exactly once, in
\* the original order, in batches of at most 10 chunks: the first batch
\* creates the store, every later batch is added to that same store, and the
\* store finally holds exactly the input chunks.
C40_EveryChunkOnceInBatches ==
    /\ \A b \in 1..Len(batches) :
           /\ Len(batches[b].documents) \in 1..10
           /\ batches[b].call = (IF b = 1 THEN "from_documents" ELSE "add_documents")
           /\ batches[b].store = batches[1].store
    /\ stores_created = (IF batches = <<>> THEN 0 ELSE 1)
    /\ Handed(Len(batches)) = SubSeq(chunks, 1, Len(Handed(Len(batches))))
    /\ vpc = "returned" =>
           /\ Handed(Len(batches)) = chunks
           /\ on_disk = chunks
           /\ store_handle = (IF chunks = <<>> THEN None ELSE batches[1].store)

\* The call returned after three batches, the last of one chunk, with chunks
\* that repeat.
C40_Witness ==
    /\ vpc = "returned"
    /\ Len(chunks) = 21
    /\ chunks[1] = chunks[4]
    /\ Len(batches) = 3
    /\ Len(batches[3].documents) = 1
    /\ on_disk = chunks

(***************************************************************************)
(* Two requests handled side by side.                                      *)
(*                                                                         *)
(* A request passes through retrieve's parameter selection,                *)
(* optimize_search_query, filter_search_results, summarize_fact_check and  *)
(* the composition of generate_fact_check_content.  Each call of one of    *)
(* these functions has its local variables in a frame of its own; the      *)
(* calls of different requests interleave between entering a function and  *)
(* returning from it.  What the stores and services answer is part of what *)
(* a request comes with.                                                   *)
(***************************************************************************)

\* The two requests.
Requests == {1, 2}

Stages == <<"params", "optimize", "filter", "summarize", "compose">>

\* What a request may come with.
RequestProfiles == {
    [query |-> [words |-> 3, gap |-> 1, pad |-> 0], kArg |-> None, fetchArg |-> None,
     question |-> "Where does the bird nest?", docs |-> <<6, 7>>, raw |-> <<1, 2, 3>>,
     language |-> "English", ai_answer |-> "It nests on cliffs.",
     llm |-> [kind |-> "str", text |-> <<"E","n","d","a","n","g","e","r","e","d",".">>]],
    [query |-> [words |-> 25, gap |-> 2, pad |-> 1], kArg |-> 2, fetchArg |-> None,
     question |-> "Is it endangered?", docs |-> <<8>>, raw |-> <<4, 5>>,
     language |-> "Portuguese", ai_answer |-> "It nests on cliffs.",
     llm |-> [kind |-> "raised", by |-> "invoke"]],
    [query |-> [words |-> 51, gap |-> 1, pad |-> 0], kArg |-> None, fetchArg |-> 3,
     question |-> "Is it endangered?", docs |-> <<>>, raw |-> <<>>,
     language |-> "Portuguese", ai_answer |-> "It nests on cliffs.",
     llm |-> [kind |-> "raised", by |-> "Tongyi"]],
    [query |-> [words |-> 20, gap |-> 1, pad |-> 1], kArg |-> None, fetchArg |-> None,
     question |-> "Where does the bird nest?", docs |-> <<10, 7, 9>>, raw |-> <<6, 7, 1>>,
     language |-> "Portuguese", ai_answer |-> "It nests on cliffs.",
     llm |-> [kind |-> "str", text |-> <<" ","\n","N","e","s","t","s"," ","o","n"," ",
                                        "c","l","i","f","f","s",".","\n"," ">>]]
}

\* Variant in which the functions keep their local variables in one
\* module-level place.
frame_of_shared(r) == 1

\* The frame of the function call a request is in: its own.
frame_of(r) == r

\* rag_utils.py lines 51-59: k and fetch_k of a retrieve call.
params_stage(in) ==
    LET kUsed == select_k(QueryText(in.query), in.kArg)
    IN  [kind |-> "params", k |-> kUsed,
         fetch_k |-> select_fetch_k(kUsed, in.kArg, in.fetchArg)]

\* fact_check_utils.py lines 148-186.
optimize_stage(in) ==
    [kind |-> "query", text |-> optimize_search_query(in.question, in.docs)]

\* fact_check_utils.py lines 189-237.
filter_stage(in) ==
    [kind |-> "results", results |-> filter_search_results(in.raw, in.question)]

\* fact_check_utils.py lines 45-145.
summarize_stage(in) ==
    IF in.llm.kind = "str" THEN with_sources(in.llm.text, in.docs, in.language)
    ELSE summarize_except(in.docs, in.language, 1).out

\* fact_check_utils.py lines 373-384, with the web section made of the
\* filtered results (lines 288-300).
compose_stage(in, kb, filtered) ==
    compose(in.language, kb,
            IF Len(filtered.results) > 0 THEN ddg_summary(filtered.results, in.language)
            ELSE ReturnNone)

\* What the function of a stage computes from what the request came with and
\* from what earlier stages returned to it.
stage_value(s, in, out) ==
    IF s = 1 THEN params_stage(in)
    ELSE IF s = 2 THEN optimize_stage(in)
    ELSE IF s = 3 THEN filter_stage(in)
    ELSE IF s = 4 THEN summarize_stage(in)
    ELSE compose_stage(in, out[4], out[3])

NoValue == [kind |-> "none"]

InitRequests ==
    /\ RegistryIdle
    /\ RetrieveIdle
    /\ FactCheckIdle
    /\ ReaskIdle
    /\ NameIdle
    /\ TtsIdle
    /\ VsIdle
    /\ req_pc = [r \in Requests |-> [stage |-> 1, at |-> "call", crossed |-> FALSE]]
    /\ req_input \in [Requests -> RequestProfiles]
    /\ req_locals = [r \in Requests |-> NoValue]
    /\ req_output = [r \in Requests |-> [s \in 1..Len(Stages) |-> NoValue]]

\* A request enters the function of its stage: the function computes in its
\* frame.  Requests that are inside a function at that moment have been
\* crossed by another request.
stage_enter(r) ==
    /\ req_pc[r].at = "call"
    /\ req_locals' = [req_locals EXCEPT ![frame_of(r)] =
                         stage_value(req_pc[r].stage, req_input[r], req_output[r])]
    /\ req_pc' = [u \in Requests |->
                    IF u = r THEN [req_pc[u] EXCEPT !.at = "return"]
                    ELSE IF req_pc[u].at = "return" THEN [req_pc[u] EXCEPT !.crossed = TRUE]
                    ELSE req_pc[u]]
    /\ UNCHANGED <<req_input, req_output>>

\* The function returns what its frame holds.  An exception raised by
\* summarize_fact_check ends the request.
stage_leave(r) ==
    /\ req_pc[r].at = "return"
    /\ LET value == req_locals[frame_of(r)]
       IN  /\ req_output' = [req_output EXCEPT ![r][req_pc[r].stage] = value]
           /\ req_pc' = [req_pc EXCEPT ![r] =
                  IF value.kind = "raised" THEN [@ EXCEPT !.at = "raised"]
                  ELSE IF req_pc[r].stage = Len(Stages) THEN [@ EXCEPT !.at = "done"]
                  ELSE [@ EXCEPT !.stage = @ + 1, !.at = "call"]]
    /\ UNCHANGED <<req_input, req_locals>>

NextRequests ==
    /\ \/ \E r \in Requests : stage_enter(r)
       \/ \E r \in Requests : stage_leave(r)
    /\ UNCHANGED <<regVars, retVars, fcVars, reaskVars, nameVars, ttsVars, vsVars>>

SpecRequests == InitRequests /\ [][NextRequests]_vars

(***************************************************************************)
(* Claims about requests handled side by side (checked under SpecRequests).*)
(***************************************************************************)

\* What the stages return to a request that runs alone.
Alone(in) ==
    LET p == params_stage(in)
        o == optimize_stage(in)
        f == filter_stage(in)
        kb == summarize_stage(in)
    IN  <<p, o, f, kb, IF kb.kind = "raised" THEN NoValue ELSE compose_stage(in, kb, f)>>

\* The stages a request has been through.
Passed(r) ==
    {s \in 1..Len(Stages) :
        s < req_pc[r].stage \/ (s = req_pc[r].stage /\ req_pc[r].at \in {"done", "raised"})}

MoreIdle == ReaskIdle /\ NameIdle /\ TtsIdle /\ VsIdle /\ ReqIdle

Init == InitRegistry /\ RetrieveIdle /\ FactCheckIdle /\ MoreIdle

Next == NextRegistry /\ UNCHANGED <<retVars, fcVars, moreVars>>

Spec == Init /\ [][Next]_vars

====
